---- MODULE Spec2Model ----
(***************************************************************************)
(* Price Intelligence Engine of smartphone-price-tracker-v2:               *)
(*   - CurrencyConverter  (src/src/analysis/currency_converter.py)         *)
(*   - PriceAnalyzer      (src/src/analysis/price_analyzer.py)             *)
(*   - the two save paths (src/main.py, src/cli.py)                        *)
(*                                                                         *)
(* Numbers.  A Python float is modelled by an exact rational <<n, d>> in   *)
(* lowest terms with d > 0; Python's None is <<0, 0>>, so that an          *)
(* Optional[float] is always a pair.  Rounding of binary floating point is *)
(* not modelled.  Time is an integer number of hours.                      *)
(***************************************************************************)
EXTENDS Integers, Sequences, FiniteSets, TLC

VARIABLES
    cache,           \* rows of table exchange_rates, in insertion order
    fallback_rates,  \* CurrencyConverter.fallback_rates of the long-lived converter
    api_key,         \* CurrencyConverter.api_key is set (TRUE) or None (FALSE)
    now,             \* datetime.utcnow(), in hours
    records,         \* rows of table price_records, in insertion order
    trends,          \* rows of table price_trends, in insertion order
    running,         \* the resolutions under way: per caller, how far it has come
    last             \* the call just made: its inputs, return value and tier log

vars == <<cache, fallback_rates, api_key, now, records, trends, running, last>>

---------------------------------------------------------------------------
(* Rational arithmetic *)

None == <<0, 0>>

Abs(i) == IF i < 0 THEN -i ELSE i

RECURSIVE GCD(_, _)
GCD(a, b) == IF b = 0 THEN a ELSE GCD(b, a % b)

\* n/d in lowest terms, d # 0
Rat(n, d) ==
    LET g == GCD(Abs(n), Abs(d))
        s == IF d < 0 THEN -1 ELSE 1
    IN  <<(s * n) \div g, (s * d) \div g>>

Int2Rat(i) == <<i, 1>>

IsNone(x) == x[2] = 0

\* Python truthiness of an Optional[float]: None and 0.0 are falsy
Truthy(x) == x[2] # 0 /\ x[1] # 0

RAdd(x, y) == Rat(x[1] * y[2] + y[1] * x[2], x[2] * y[2])
RSub(x, y) == Rat(x[1] * y[2] - y[1] * x[2], x[2] * y[2])
RMul(x, y) == Rat(x[1] * y[1], x[2] * y[2])
\* y # 0
RDiv(x, y) == Rat(x[1] * y[2], x[2] * y[1])
RLess(x, y) == x[1] * y[2] < y[1] * x[2]
RLeq(x, y) == x[1] * y[2] <= y[1] * x[2]
RMin(x, y) == IF RLeq(x, y) THEN x ELSE y
RMax(x, y) == IF RLeq(x, y) THEN y ELSE x
RAbs(x) == <<Abs(x[1]), x[2]>>

Zero == <<0, 1>>
One == <<1, 1>>

---------------------------------------------------------------------------
(* Bounds of the model *)

\* rows the exchange_rates table may hold
MaxCache == 2
\* the clock stops after this many ticks
MaxTicks == 2
\* rows the price_records table may hold
MaxRecords == 3
\* items of a bulk_convert_to_usd batch
MaxBatch == 3

---------------------------------------------------------------------------
(* CurrencyConverter *)

\* self.cache_duration_hours
cache_duration_hours == 24

\* self.fallback_rates as built by __init__
InitFallbackRates ==
    [cur \in {"USD", "EUR", "GBP", "JPY", "INR", "CAD", "AUD"} |->
        CASE cur = "USD" -> Rat(1, 1)
          [] cur = "EUR" -> Rat(85, 100)
          [] cur = "GBP" -> Rat(73, 100)
          [] cur = "JPY" -> Rat(110, 1)
          [] cur = "INR" -> Rat(75, 1)
          [] cur = "CAD" -> Rat(125, 100)
          [] cur = "AUD" -> Rat(135, 100)]

\* dict.get(key): None when the key is absent
DictGet(f, key) == IF key \in DOMAIN f THEN f[key] ELSE None

\* the currencies update_fallback_rates walks through, in its order
TrackedCurrencies == <<"EUR", "GBP", "JPY", "INR", "CAD", "AUD">>

\* The three providers, in the order of the list in _fetch_rate_from_api
Providers == 1 .. 3

\* What one provider function returns for one call: None (network error, bad
\* status, malformed body, success flag missing, key missing from the body),
\* the falsy number 0, or a rate.
ProviderOutcomes == {None, Zero, Rat(2, 1), Rat(4, 5)}

\* What happens inside a provider function besides: requests or .json()
\* raises (network error, bad status, a body that is no JSON object), or the
\* body holds under the key read a truthy value that is no number (a string,
\* a list)
Raised == <<1, 0>>
NonNumeric == <<1, -1>>

\* try: ... except Exception: return None
Caught(outcome) == IF outcome = Raised THEN None ELSE outcome

\* The environment of one call: what each provider would answer, whether the
\* INSERT of _cache_rate commits, and whether the SELECT of _get_cached_rate
\* runs (it raises when the database is away or the session is unusable).
Envs == [api : [Providers -> ProviderOutcomes], store_ok : BOOLEAN, read_ok : BOOLEAN]

\* One line of the tier log of a call: the tier, the provider (0: none) and
\* the value that tier produced
Entry(tier, who, got) == [tier |-> tier, who |-> who, got |-> got]

\* the rows of the pair, whatever their age
FreshRows_any_age(c, t, from, to) ==
    {i \in 1 .. Len(c) : c[i].from_currency = from /\ c[i].to_currency = to}

\* rows of the pair no older than the window, newest first: the first one
FreshRows(c, t, from, to) ==
    {i \in 1 .. Len(c) : /\ c[i].from_currency = from
                         /\ c[i].to_currency = to
                         /\ c[i].date >= t - cache_duration_hours}

NewestOf(c, rows) ==
    CHOOSE i \in rows : \A j \in rows : c[j].date < c[i].date \/ (c[j].date = c[i].date /\ j <= i)

_get_cached_rate(c, t, from, to) ==
    LET rows == FreshRows(c, t, from, to)
    IN  IF rows # {} THEN c[NewestOf(c, rows)].rate ELSE None

\* the row added twice
_cache_rate_twice(c, t, from, to, rate, env) ==
    IF env.store_ok
    THEN c \o <<[from_currency |-> from, to_currency |-> to, rate |-> rate, date |-> t],
               [from_currency |-> from, to_currency |-> to, rate |-> rate, date |-> t]>>
    ELSE c

\* add + commit; on an exception: rollback, nothing written
_cache_rate(c, t, from, to, rate, env) ==
    IF env.store_ok
    THEN Append(c, [from_currency |-> from, to_currency |-> to, rate |-> rate, date |-> t])
    ELSE c

_fetch_from_exchangerate_api(from, to, env) == Entry("api", 1, Caught(env.api[1]))

_fetch_from_fixer_io(key, from, to, env) ==
    IF ~key THEN Entry("api", 2, None) ELSE Entry("api", 2, Caught(env.api[2]))

_fetch_from_free_forex_api(from, to, env) == Entry("api", 3, Caught(env.api[3]))

ProviderCall(p, key, from, to, env) ==
    CASE p = 1 -> _fetch_from_exchangerate_api(from, to, env)
      [] p = 2 -> _fetch_from_fixer_io(key, from, to, env)
      [] p = 3 -> _fetch_from_free_forex_api(from, to, env)

\* the loop given up at the first provider that has no rate
FetchFrom_gives_up(p, key, from, to, env) ==
    LET e == ProviderCall(p, key, from, to, env)
    IN  [ret |-> IF Truthy(e.got) THEN e.got ELSE None, log |-> <<e>>]

\* for api_func in apis: rate = api_func(...); if rate: return rate
RECURSIVE FetchFrom(_, _, _, _, _)
FetchFrom(p, key, from, to, env) ==
    IF p > 3 THEN [ret |-> None, log |-> <<>>]
    ELSE LET e == ProviderCall(p, key, from, to, env)
         IN  IF Truthy(e.got)
             THEN [ret |-> e.got, log |-> <<e>>]
             ELSE LET rest == FetchFrom(p + 1, key, from, to, env)
                  IN  [ret |-> rest.ret, log |-> <<e>> \o rest.log]

_fetch_rate_from_api(key, from, to, env) == FetchFrom(1, key, from, to, env)

\* the cross rate taken the wrong way round
_get_fallback_rate_inverted(f, from, to) ==
    IF from = to THEN One
    ELSE LET from_rate == DictGet(f, from)
             to_rate == DictGet(f, to)
         IN  IF Truthy(from_rate) /\ Truthy(to_rate)
             THEN RDiv(from_rate, to_rate)
             ELSE None

_get_fallback_rate(f, from, to) ==
    IF from = to THEN One
    ELSE IF to # "USD"
         THEN LET from_rate == DictGet(f, from)
                  to_rate == DictGet(f, to)
              IN  IF Truthy(from_rate) /\ Truthy(to_rate)
                  THEN RDiv(to_rate, from_rate)
                  ELSE None
         ELSE LET from_rate == DictGet(f, from)
              IN  IF Truthy(from_rate) THEN RDiv(One, from_rate) ELSE None

\* Returns the rate, the table exchange_rates after the call and the tiers
\* used. Nothing catches what the query of _get_cached_rate raises.
get_exchange_rate(c, f, key, t, from, to, env) ==
    LET cached_rate == _get_cached_rate(c, t, from, to)
        look == Entry("cache", 0, cached_rate)
    IN  IF ~env.read_ok
        THEN [ret |-> Raised, cache |-> c, log |-> <<Entry("cache", 0, Raised)>>]
        ELSE IF Truthy(cached_rate)
        THEN [ret |-> cached_rate, cache |-> c, log |-> <<look>>]
        ELSE LET api == _fetch_rate_from_api(key, from, to, env)
             IN  IF Truthy(api.ret)
                 THEN [ret |-> api.ret,
                       cache |-> _cache_rate(c, t, from, to, api.ret, env),
                       log |-> <<look>> \o api.log
                               \o <<Entry("store", 0, IF env.store_ok THEN api.ret ELSE None)>>]
                 ELSE LET fallback_rate == _get_fallback_rate(f, from, to)
                          fb == Entry("fallback", 0, fallback_rate)
                      IN  [ret |-> IF Truthy(fallback_rate) THEN fallback_rate ELSE None,
                           cache |-> c,
                           log |-> <<look>> \o api.log \o <<fb>>]

\* the amount multiplied by the rate, not divided
convert_to_usd_multiplies(c, f, key, t, amount, from, env) ==
    IF from = "USD"
    THEN [ret |-> amount, rate |-> None, cache |-> c, log |-> <<>>]
    ELSE LET r == get_exchange_rate(c, f, key, t, from, "USD", env)
         IN  [ret |-> IF Truthy(r.ret) THEN RMul(amount, r.ret) ELSE None,
              rate |-> r.ret, cache |-> r.cache, log |-> r.log]

\* USD resolved like any other currency
convert_to_usd_no_shortcut(c, f, key, t, amount, from, env) ==
    LET r == get_exchange_rate(c, f, key, t, from, "USD", env)
    IN  [ret |-> IF Truthy(r.ret) THEN RDiv(amount, r.ret) ELSE None,
         rate |-> r.ret, cache |-> r.cache, log |-> r.log]

\* what get_exchange_rate raises goes through; amount / rate raises TypeError
\* when the rate is no number
convert_to_usd(c, f, key, t, amount, from, env) ==
    IF from = "USD"
    THEN [ret |-> amount, rate |-> None, cache |-> c, log |-> <<>>]
    ELSE LET r == get_exchange_rate(c, f, key, t, from, "USD", env)
         IN  [ret |-> IF r.ret \in {Raised, NonNumeric} THEN Raised
                      ELSE IF Truthy(r.ret) THEN RDiv(amount, r.ret) ELSE None,
              rate |-> r.ret, cache |-> r.cache, log |-> r.log]

\* the oldest row of the pair
LatestRate_oldest(c, from, to) ==
    LET rows == {i \in 1 .. Len(c) : c[i].from_currency = from /\ c[i].to_currency = to}
    IN  IF rows # {}
        THEN c[CHOOSE i \in rows : \A j \in rows : c[i].date <= c[j].date].rate
        ELSE None

\* the newest row of the pair, of any age
LatestRate(c, from, to) ==
    LET rows == {i \in 1 .. Len(c) : c[i].from_currency = from /\ c[i].to_currency = to}
    IN  IF rows # {} THEN c[NewestOf(c, rows)].rate ELSE None

RECURSIVE UpdateFrom(_, _, _)
UpdateFrom(k, c, f) ==
    IF k > Len(TrackedCurrencies) THEN f
    ELSE LET currency == TrackedCurrencies[k]
             latest_rate == LatestRate(c, currency, "USD")
         IN  UpdateFrom(k + 1, c,
                        IF ~IsNone(latest_rate)
                        THEN [f EXCEPT ![currency] = latest_rate]
                        ELSE f)

update_fallback_rates(c, f) == UpdateFrom(1, c, f)

\* one key per item: a currency as often as it occurs
GroupKeys_repeating(batch, k) == [i \in 1 .. k |-> batch[i][2]]

\* A batch item is <<amount, currency, index>>.
\* The keys of currency_groups, in the order a dict keeps them: first use
RECURSIVE GroupKeys(_, _)
GroupKeys(batch, k) ==
    IF k = 0 THEN <<>>
    ELSE LET before == GroupKeys(batch, k - 1)
         IN  IF \E i \in 1 .. Len(before) : before[i] = batch[k][2]
             THEN before
             ELSE Append(before, batch[k][2])

\* currency_groups[currency]: its (amount, index) pairs in batch order
GroupItems(batch, currency) == SelectSeq(batch, LAMBDA it : it[2] = currency)

\* an amount without a rate passed on as it is, not as None
RECURSIVE GroupResults_keeps_amount(_, _, _, _)
GroupResults_keeps_amount(items, k, currency, rate) ==
    IF k > Len(items) THEN <<>>
    ELSE <<[index |-> items[k][3],
            value |-> IF Truthy(rate) /\ currency # "USD"
                      THEN RDiv(items[k][1], rate)
                      ELSE items[k][1]]>>
         \o GroupResults_keeps_amount(items, k + 1, currency, rate)

\* for amount, index in items: results.append((index, usd_amount or None))
RECURSIVE GroupResults(_, _, _, _)
GroupResults(items, k, currency, rate) ==
    IF k > Len(items) THEN <<>>
    ELSE <<[index |-> items[k][3],
            value |-> IF Truthy(rate)
                      THEN (IF currency # "USD" THEN RDiv(items[k][1], rate) ELSE items[k][1])
                      ELSE None]>>
         \o GroupResults(items, k + 1, currency, rate)

\* list.sort(key=lambda x: x[0]): stable, ascending by index
RECURSIVE InsertByIndex(_, _)
InsertByIndex(sorted, r) ==
    IF sorted = <<>> THEN <<r>>
    ELSE IF sorted[Len(sorted)].index <= r.index
         THEN Append(sorted, r)
         ELSE Append(InsertByIndex(SubSeq(sorted, 1, Len(sorted) - 1), r), sorted[Len(sorted)])

RECURSIVE SortByIndex(_, _)
SortByIndex(results, k) ==
    IF k = 0 THEN <<>> ELSE InsertByIndex(SortByIndex(results, k - 1), results[k])

\* the loop over currency_groups.items(): one get_exchange_rate per group
\* that is not USD, each with its own environment envs[currency]
RECURSIVE ConvertGroups(_, _, _, _, _, _, _, _)
ConvertGroups(keys, k, batch, c, f, key, t, envs) ==
    IF k > Len(keys)
    THEN [results |-> <<>>, cache |-> c, calls |-> <<>>, log |-> <<>>]
    ELSE LET currency == keys[k]
             g == IF currency # "USD"
                  THEN get_exchange_rate(c, f, key, t, currency, "USD", envs[currency])
                  ELSE [ret |-> One, cache |-> c, log |-> <<>>]
             rest == ConvertGroups(keys, k + 1, batch, g.cache, f, key, t, envs)
         IN  [results |-> GroupResults(GroupItems(batch, currency), 1, currency, g.ret)
                          \o rest.results,
              cache |-> rest.cache,
              calls |-> (IF currency # "USD"
                         THEN <<[currency |-> currency, rate |-> g.ret]>>
                         ELSE <<>>) \o rest.calls,
              log |-> g.log \o rest.log]

\* the results in grouping order, not sorted back
bulk_convert_to_usd_unsorted(c, f, key, t, batch, envs) ==
    LET done == ConvertGroups(GroupKeys(batch, Len(batch)), 1, batch, c, f, key, t, envs)
    IN  [ret |-> [i \in 1 .. Len(done.results) |-> done.results[i].value],
         cache |-> done.cache, calls |-> done.calls, log |-> done.log]

bulk_convert_to_usd(c, f, key, t, batch, envs) ==
    LET done == ConvertGroups(GroupKeys(batch, Len(batch)), 1, batch, c, f, key, t, envs)
        results == SortByIndex(done.results, Len(done.results))
    IN  [ret |-> [i \in 1 .. Len(results) |-> results[i].value],
         cache |-> done.cache, calls |-> done.calls, log |-> done.log]

---------------------------------------------------------------------------
(* The tables the analyzer reads *)

\* ids of the rows of tables phone_models and platforms (init_default_data)
PhoneModelIds == {1, 2}
PlatformIds == {1, 2}

HoursPerDay == 24

\* timedelta(days=d), in hours
Days(d) == d * HoursPerDay

\* A row of price_records
PriceRecord(m, pf, cond, price, currency, price_usd, avail, ts) ==
    [phone_model_id |-> m, platform_id |-> pf, condition |-> cond, price |-> price,
     currency |-> currency, price_usd |-> price_usd, availability |-> avail,
     scrape_timestamp |-> ts]

\* The orders in which a query without a total ORDER BY may return the rows
\* of the table, and a sort may leave rows of equal key
Perms(n) == {p \in [1 .. n -> 1 .. n] : \A i, j \in 1 .. n : p[i] = p[j] => i = j}

\* ... those that are ascending by scrape_timestamp
ChronoOrders(recs) ==
    {p \in Perms(Len(recs)) :
        \A i, j \in 1 .. Len(recs) :
            i < j => recs[p[i]].scrape_timestamp <= recs[p[j]].scrape_timestamp}

RECURSIVE Sum(_, _)
Sum(xs, k) == IF k = 0 THEN Zero ELSE RAdd(Sum(xs, k - 1), xs[k])

Mean(xs) == RDiv(Sum(xs, Len(xs)), Int2Rat(Len(xs)))

RECURSIVE MinOf(_, _)
MinOf(xs, k) == IF k = 1 THEN xs[1] ELSE RMin(MinOf(xs, k - 1), xs[k])

RECURSIVE MaxOf(_, _)
MaxOf(xs, k) == IF k = 1 THEN xs[1] ELSE RMax(MaxOf(xs, k - 1), xs[k])

\* sum of the squared deviations from the mean
SumSqDev(xs) ==
    LET m == Mean(xs)
    IN  Sum([i \in 1 .. Len(xs) |-> RMul(RSub(xs[i], m), RSub(xs[i], m))], Len(xs))

\* the largest k in lo .. hi with k * k <= n
RECURSIVE ISqrt(_, _, _)
ISqrt(n, lo, hi) ==
    IF lo >= hi THEN lo
    ELSE LET mid == (lo + hi + 1) \div 2
         IN  IF mid * mid <= n THEN ISqrt(n, mid, hi) ELSE ISqrt(n, lo, mid - 1)

\* digits a square root keeps: it is rounded down to a multiple of 1/SqrtScale
SqrtScale == 100

Sqrt(x) ==
    LET n == (x[1] * SqrtScale * SqrtScale) \div x[2]
    IN  Rat(ISqrt(n, 0, IF n < 40000 THEN n ELSE 40000), SqrtScale)

\* pandas Series.std(): ddof = 1
Std(xs) == Sqrt(RDiv(SumSqDev(xs), Int2Rat(Len(xs) - 1)))

---------------------------------------------------------------------------
(* PriceAnalyzer: trends *)

NoAnalysis == [kind |-> "None"]

\* the query without its lookback cutoff
Qualifies_any_age(r, t, m, pf, cond, days_back) ==
    /\ r.phone_model_id = m
    /\ r.platform_id = pf
    /\ r.condition = cond
    /\ ~IsNone(r.price_usd)

\* the rows the query of _analyze_single_combination selects
Qualifies(r, t, m, pf, cond, days_back) ==
    /\ r.phone_model_id = m
    /\ r.platform_id = pf
    /\ r.condition = cond
    /\ r.scrape_timestamp >= t - Days(days_back)
    /\ ~IsNone(r.price_usd)

\* df after sort_values('timestamp'): the selected rows in the order ord
Frame(recs, t, m, pf, cond, days_back, ord) ==
    LET picked == SelectSeq(ord, LAMBDA i : Qualifies(recs[i], t, m, pf, cond, days_back))
    IN  [k \in 1 .. Len(picked) |-> recs[picked[k]]]

PricesOf(df) == [k \in 1 .. Len(df) |-> df[k].price_usd]

\* df[df['timestamp'] >= utcnow - timedelta(days=d)]
Since(df, t, d) == SelectSeq(df, LAMBDA r : r.scrape_timestamp >= t - Days(d))

\* np.polyfit(np.arange(n), y, 1)[0]: the least-squares slope
Slope(y) ==
    LET n == Len(y)
        xbar == Rat(n - 1, 2)
        ybar == Mean(y)
        sxy == Sum([i \in 1 .. n |-> RMul(RSub(Int2Rat(i - 1), xbar), RSub(y[i], ybar))], n)
        sxx == Sum([i \in 1 .. n |-> RMul(RSub(Int2Rat(i - 1), xbar), RSub(Int2Rat(i - 1), xbar))], n)
    IN  RDiv(sxy, sxx)

\* a regression through two points
_determine_trend_direction_from_two(y) ==
    IF Len(y) < 2 THEN "stable"
    ELSE LET normalized_slope == RMul(RDiv(Slope(y), Mean(y)), Int2Rat(100))
         IN  IF RLess(Rat(1, 2), normalized_slope) THEN "up"
             ELSE IF RLess(normalized_slope, Rat(-1, 2)) THEN "down"
             ELSE "stable"

\* the thresholds counted in
_determine_trend_direction_inclusive(y) ==
    IF Len(y) < 3 THEN "stable"
    ELSE LET normalized_slope == RMul(RDiv(Slope(y), Mean(y)), Int2Rat(100))
         IN  IF RLeq(Rat(1, 2), normalized_slope) THEN "up"
             ELSE IF RLeq(normalized_slope, Rat(-1, 2)) THEN "down"
             ELSE "stable"

\* y: the prices of df, in its order. With a mean of 0, slope / avg_price is
\* nan for a slope of 0, which compares False both ways, and else infinite
\* with the sign of the slope
_determine_trend_direction(y) ==
    IF Len(y) < 3 THEN "stable"
    ELSE LET slope == Slope(y)
             avg_price == Mean(y)
             normalized_slope == IF avg_price = Zero
                                 THEN (IF slope = Zero THEN Zero ELSE RMul(slope, Int2Rat(1000)))
                                 ELSE RMul(RDiv(slope, avg_price), Int2Rat(100))
         IN  IF RLess(Rat(1, 2), normalized_slope) THEN "up"
             ELSE IF RLess(normalized_slope, Rat(-1, 2)) THEN "down"
             ELSE "stable"

\* the weighted sum returned as it is
_calculate_confidence_score_unclamped(n, avg_price, volatility, days_span) ==
    IF n < 3 THEN Rat(3, 10)
    ELSE LET data_score == RMin(Rat(n, 20), One)
             volatility_ratio == IF RLess(Zero, avg_price)
                                 THEN RDiv(volatility, avg_price)
                                 ELSE One
             volatility_score == RMax(Zero, RSub(One, RMul(volatility_ratio, Int2Rat(2))))
             recency_score == RMin(Rat(days_span, 30), One)
         IN  RAdd(RAdd(RMul(data_score, Rat(4, 10)), RMul(volatility_score, Rat(4, 10))),
                  RMul(recency_score, Rat(2, 10)))

\* len(df), df['price_usd'].mean(), volatility, the span of df in days
_calculate_confidence_score(n, avg_price, volatility, days_span) ==
    IF n < 3 THEN Rat(3, 10)
    ELSE LET data_score == RMin(Rat(n, 20), One)
             volatility_ratio == IF RLess(Zero, avg_price)
                                 THEN RDiv(volatility, avg_price)
                                 ELSE One
             volatility_score == RMax(Zero, RSub(One, RMul(volatility_ratio, Int2Rat(2))))
             recency_score == RMin(Rat(days_span, 30), One)
             confidence == RAdd(RAdd(RMul(data_score, Rat(4, 10)),
                                     RMul(volatility_score, Rat(4, 10))),
                                RMul(recency_score, Rat(2, 10)))
         IN  RMax(Rat(1, 10), RMin(One, confidence))

\* (df['timestamp'].max() - df['timestamp'].min()).days
DaysSpan(df) == (df[Len(df)].scrape_timestamp - df[1].scrape_timestamp) \div HoursPerDay

_analyze_single_combination(recs, t, m, pf, cond, days_back, ord) ==
    LET df == Frame(recs, t, m, pf, cond, days_back, ord)
    IN  IF Len(df) < 2 THEN NoAnalysis
        ELSE IF m \notin PhoneModelIds \/ pf \notin PlatformIds THEN NoAnalysis
        ELSE LET y == PricesOf(df)
                 current_price == y[Len(y)]
                 previous_price == y[Len(y) - 1]
                 price_change_amount == IF Truthy(previous_price)
                                        THEN RSub(current_price, previous_price)
                                        ELSE Zero
                 price_change_percent == IF Truthy(previous_price)
                                         THEN RMul(RDiv(price_change_amount, previous_price),
                                                   Int2Rat(100))
                                         ELSE Zero
                 y7 == PricesOf(Since(df, t, 7))
                 y30 == PricesOf(Since(df, t, 30))
                 volatility == Std(y)
             IN  [kind |-> "PriceAnalysis",
                  phone_model |-> m, platform |-> pf, condition |-> cond,
                  current_price |-> current_price,
                  previous_price |-> previous_price,
                  price_change_amount |-> price_change_amount,
                  price_change_percent |-> price_change_percent,
                  avg_price_7d |-> IF Len(y7) > 0 THEN Mean(y7) ELSE current_price,
                  avg_price_30d |-> IF Len(y30) > 0 THEN Mean(y30) ELSE current_price,
                  min_price_7d |-> IF Len(y7) > 0 THEN MinOf(y7, Len(y7)) ELSE current_price,
                  max_price_7d |-> IF Len(y7) > 0 THEN MaxOf(y7, Len(y7)) ELSE current_price,
                  volatility |-> volatility,
                  trend_direction |-> _determine_trend_direction(y),
                  confidence_score |->
                      _calculate_confidence_score(Len(df), Mean(y), volatility, DaysSpan(df))]

\* the distinct (phone_model_id, platform_id, condition) of the table
Combinations(recs) ==
    {<<recs[i].phone_model_id, recs[i].platform_id, recs[i].condition>> : i \in 1 .. Len(recs)}

\* the analyses of all combinations that have one
analyze_price_trends(recs, t, days_back, ord) ==
    {a \in {_analyze_single_combination(recs, t, c[1], c[2], c[3], days_back, ord) :
                c \in Combinations(recs)} : a.kind # "None"}

---------------------------------------------------------------------------
(* PriceAnalyzer: market insights *)

\* MarketInsight; title and description are renderings of these fields
MarketInsight(insight_type, phone_model, platform, value, confidence) ==
    [insight_type |-> insight_type, phone_model |-> phone_model, platform |-> platform,
     value |-> value, confidence |-> confidence]

\* the rows of a query, picked the indices of the rows it matches in the
\* order it returns them
Rows(recs, picked) == [k \in 1 .. Len(picked) |-> recs[picked[k]]]

\* the join with latest_prices_subquery: rows carrying the newest timestamp
\* of their (model, platform, condition)
IsLatest(recs, i) ==
    \A j \in 1 .. Len(recs) :
        (/\ recs[j].phone_model_id = recs[i].phone_model_id
         /\ recs[j].platform_id = recs[i].platform_id
         /\ recs[j].condition = recs[i].condition)
            => recs[j].scrape_timestamp <= recs[i].scrape_timestamp

\* the keys of price_groups, in insertion order
RECURSIVE PriceGroupKeys(_, _)
PriceGroupKeys(latest_prices, k) ==
    IF k = 0 THEN <<>>
    ELSE LET before == PriceGroupKeys(latest_prices, k - 1)
             key == <<latest_prices[k].phone_model_id, latest_prices[k].condition>>
         IN  IF \E n \in 1 .. Len(before) : before[n] = key THEN before
             ELSE Append(before, key)

\* lambda p: p.price_usd or float('inf'), compared
PriceKeyLess(a, b) ==
    IF ~Truthy(a.price_usd) THEN FALSE
    ELSE IF ~Truthy(b.price_usd) THEN TRUE
    ELSE RLess(a.price_usd, b.price_usd)

\* sorted(): stable, an element goes in at the first place whose element
\* is greater, or at the end
InsertAt(xs, x, at) == SubSeq(xs, 1, at - 1) \o <<x>> \o SubSeq(xs, at, Len(xs))

InsertByPrice(xs, x) ==
    IF \E n \in 1 .. Len(xs) : PriceKeyLess(x, xs[n])
    THEN InsertAt(xs, x, CHOOSE n \in 1 .. Len(xs) :
                             /\ PriceKeyLess(x, xs[n])
                             /\ \A q \in 1 .. n - 1 : ~PriceKeyLess(x, xs[q]))
    ELSE Append(xs, x)

\* sorted(prices, key=lambda p: p.price_usd or float('inf'))
RECURSIVE SortedByPrice(_, _)
SortedByPrice(prices, k) ==
    IF k = 0 THEN <<>>
    ELSE InsertByPrice(SortedByPrice(prices, k - 1), prices[k])

ValueGreater(x, y) == RLess(y.value, x.value)

InsertByValueDesc(xs, x) ==
    IF \E n \in 1 .. Len(xs) : ValueGreater(x, xs[n])
    THEN InsertAt(xs, x, CHOOSE n \in 1 .. Len(xs) :
                             /\ ValueGreater(x, xs[n])
                             /\ \A q \in 1 .. n - 1 : ~ValueGreater(x, xs[q]))
    ELSE Append(xs, x)

\* the insights in the order the groups gave them
InsightsAsAppended(insights, k) == SubSeq(insights, 1, k)

\* sorted(insights, key=lambda x: x.value, reverse=True)
RECURSIVE SortedByValueDesc(_, _)
SortedByValueDesc(insights, k) ==
    IF k = 0 THEN <<>>
    ELSE InsertByValueDesc(SortedByValueDesc(insights, k - 1), insights[k])

\* the body of the loop over price_groups: the insights of one group
ArbitrageOfGroup(prices, phone_model_id, min_profit_percent) ==
    IF Len(prices) < 2 THEN <<>>
    ELSE IF phone_model_id \notin PhoneModelIds THEN <<>>
    ELSE LET prices_sorted == SortedByPrice(prices, Len(prices))
             min_price == prices_sorted[1]
             max_price == prices_sorted[Len(prices_sorted)]
         IN  IF ~Truthy(min_price.price_usd) \/ ~Truthy(max_price.price_usd) THEN <<>>
             ELSE LET profit_percent ==
                          RMul(RDiv(RSub(max_price.price_usd, min_price.price_usd),
                                    min_price.price_usd), Int2Rat(100))
                  IN  IF RLeq(min_profit_percent, profit_percent)
                      THEN <<MarketInsight("arbitrage", phone_model_id,
                                           <<min_price.platform_id, max_price.platform_id>>,
                                           profit_percent, Rat(8, 10))>>
                      ELSE <<>>

RECURSIVE ArbitrageOfGroups(_, _, _, _)
ArbitrageOfGroups(latest_prices, keys, k, min_profit_percent) ==
    IF k = 0 THEN <<>>
    ELSE ArbitrageOfGroups(latest_prices, keys, k - 1, min_profit_percent)
         \o ArbitrageOfGroup(SelectSeq(latest_prices,
                                       LAMBDA r : <<r.phone_model_id, r.condition>> = keys[k]),
                             keys[k][1], min_profit_percent)

\* ord: the order in which .all() returns the rows
find_arbitrage_opportunities(recs, min_profit_percent, ord) ==
    LET latest_prices == Rows(recs, SelectSeq(ord, LAMBDA i : IsLatest(recs, i)))
        keys == PriceGroupKeys(latest_prices, Len(latest_prices))
        insights == ArbitrageOfGroups(latest_prices, keys, Len(keys), min_profit_percent)
    IN  SortedByValueDesc(insights, Len(insights))

\* a row of price_trends, as find_significant_price_changes reads it
PriceTrend(m, pf, period, date, change) ==
    [phone_model_id |-> m, platform_id |-> pf, trend_period |-> period,
     trend_date |-> date, price_change_percent |-> change]

\* the filter of recent_trends; abs(NULL) >= x is NULL, which is no match
IsRecentTrend(r, t, min_change_percent) ==
    /\ r.trend_date >= t - Days(7)
    /\ r.trend_period = "weekly"
    /\ r.price_change_percent # None
    /\ RLeq(min_change_percent, RAbs(r.price_change_percent))

\* the orders order_by(desc(abs(price_change_percent))) allows
TrendOrders(rows, t, min_change_percent) ==
    {p \in Perms(Len(rows)) :
        \A i, j \in 1 .. Len(rows) :
            (/\ i < j
             /\ IsRecentTrend(rows[p[i]], t, min_change_percent)
             /\ IsRecentTrend(rows[p[j]], t, min_change_percent))
            => RLeq(RAbs(rows[p[j]].price_change_percent),
                    RAbs(rows[p[i]].price_change_percent))}

\* the loop over recent_trends
RECURSIVE ChangeInsights(_, _)
ChangeInsights(recent_trends, k) ==
    IF k > Len(recent_trends) THEN <<>>
    ELSE LET trend == recent_trends[k]
             rest == ChangeInsights(recent_trends, k + 1)
         IN  IF trend.phone_model_id \notin PhoneModelIds \/ trend.platform_id \notin PlatformIds
             THEN rest
             ELSE <<MarketInsight(IF RLess(trend.price_change_percent, Zero)
                                  THEN "price_drop" ELSE "price_increase",
                                  trend.phone_model_id, trend.platform_id,
                                  RAbs(trend.price_change_percent), Rat(9, 10))>> \o rest

\* ord: the order in which the query returns the rows
find_significant_price_changes(rows, t, min_change_percent, ord) ==
    ChangeInsights(Rows(rows, SelectSeq(ord, LAMBDA i :
                                 IsRecentTrend(rows[i], t, min_change_percent))), 1)

\* the rows latest_prices_subquery of find_best_deals aggregates
RecentOffer(r, t) ==
    /\ r.scrape_timestamp >= t - Days(3)
    /\ ~IsNone(r.price_usd)
    /\ r.availability

\* the join of find_best_deals: rows priced at the min_price of their group
IsBestDeal(recs, t, i) ==
    /\ ~IsNone(recs[i].price_usd)
    /\ \E j \in 1 .. Len(recs) :
        /\ RecentOffer(recs[j], t)
        /\ recs[j].phone_model_id = recs[i].phone_model_id
        /\ recs[j].condition = recs[i].condition
        /\ recs[j].price_usd = recs[i].price_usd
        /\ \A q \in 1 .. Len(recs) :
               (/\ RecentOffer(recs[q], t)
                /\ recs[q].phone_model_id = recs[i].phone_model_id
                /\ recs[q].condition = recs[i].condition)
                   => RLeq(recs[j].price_usd, recs[q].price_usd)

\* ... in the orders ORDER BY price_usd allows
DealOrders(recs, t) ==
    {ord \in Perms(Len(recs)) :
        LET best_deals == Rows(recs, SelectSeq(ord, LAMBDA i : IsBestDeal(recs, t, i)))
        IN  \A a, b \in 1 .. Len(best_deals) :
                a < b => RLeq(best_deals[a].price_usd, best_deals[b].price_usd)}

\* func.avg(price_usd) of the group over 30 days; None over no rows
AvgPrice(recs, t, deal) ==
    LET rows == SelectSeq(recs, LAMBDA r :
                    /\ r.phone_model_id = deal.phone_model_id
                    /\ r.condition = deal.condition
                    /\ r.scrape_timestamp >= t - Days(30)
                    /\ ~IsNone(r.price_usd))
    IN  IF Len(rows) = 0 THEN None ELSE Mean(PricesOf(rows))

\* the insights of the first k deals
RECURSIVE DealInsights(_, _, _, _)
DealInsights(recs, t, best_deals, k) ==
    IF k = 0 THEN <<>>
    ELSE LET deal == best_deals[k]
             before == DealInsights(recs, t, best_deals, k - 1)
         IN  IF deal.phone_model_id \notin PhoneModelIds \/ deal.platform_id \notin PlatformIds
             THEN before
             ELSE IF Truthy(AvgPrice(recs, t, deal)) /\ Truthy(deal.price_usd)
             THEN Append(before, MarketInsight("best_deal", deal.phone_model_id,
                                               deal.platform_id, deal.price_usd, Rat(7, 10)))
             ELSE before

\* the query without its LIMIT
find_best_deals_unlimited(recs, t, top_n, ord) ==
    LET best_deals == Rows(recs, SelectSeq(ord, LAMBDA i : IsBestDeal(recs, t, i)))
    IN  DealInsights(recs, t, best_deals, Len(best_deals))

\* ord \in DealOrders(recs, t); top_n a count
find_best_deals(recs, t, top_n, ord) ==
    LET matched == Rows(recs, SelectSeq(ord, LAMBDA i : IsBestDeal(recs, t, i)))
        best_deals == SubSeq(matched, 1, IF top_n < Len(matched) THEN top_n ELSE Len(matched))
    IN  DealInsights(recs, t, best_deals, Len(best_deals))

---------------------------------------------------------------------------
(* The save paths: scraped prices become rows of price_records *)

\* the most items one scrape hands to a save
MaxItems == 2

\* PriceData as the save paths read it; platform is the id its name and
\* region resolve to, or an id of no row
PriceData(platform, price, currency) ==
    [phone_model |-> 1, platform |-> platform, condition |-> "Good", price |-> price,
     currency |-> currency, availability |-> TRUE]

\* record_data of an item whose conversion gave converted: price_usd stays
\* the raw price unless the converted amount is truthy
RecordData(price_item, converted, t) ==
    PriceRecord(price_item.phone_model, price_item.platform, price_item.condition,
                price_item.price, price_item.currency,
                IF price_item.currency # "USD" /\ Truthy(converted.ret)
                THEN converted.ret
                ELSE price_item.price,
                price_item.availability, t)

\* records.append(record_data); rates: per record, the rate convert_to_usd
\* resolved (1 for USD)
AppendRecord(price_item, converted, rest, t) ==
    [records |-> <<RecordData(price_item, converted, t)>> \o rest.records,
     rates |-> <<converted.rate>> \o rest.rates,
     cache |-> rest.cache]

\* the loop of SmartphonePriceTracker._save_price_data from item k on, with
\* converter = CurrencyConverter(session): the built-in fallback table and no
\* api key
RECURSIVE SaveLoop(_, _, _, _, _)
RECURSIVE SaveFound(_, _, _, _, _)
SaveFound(price_data, k, converted, t, envs) ==
    AppendRecord(price_data[k], converted,
                 SaveLoop(price_data, k + 1, converted.cache, t, envs), t)

SaveLoop(price_data, k, c, t, envs) ==
    IF k > Len(price_data) THEN [records |-> <<>>, rates |-> <<>>, cache |-> c]
    ELSE IF ~(/\ price_data[k].phone_model \in PhoneModelIds
              /\ price_data[k].platform \in PlatformIds)
    THEN SaveLoop(price_data, k + 1, c, t, envs)
    ELSE SaveFound(price_data, k,
                   IF price_data[k].currency # "USD"
                   THEN convert_to_usd(c, InitFallbackRates, FALSE, t, price_data[k].price,
                                       price_data[k].currency, envs[k])
                   ELSE [ret |-> None, rate |-> One, cache |-> c, log |-> <<>>],
                   t, envs)

\* db_manager.save_price_records: every row is added and committed, or none
save_price_records(table, price_records, commit_ok) ==
    IF commit_ok THEN [ret |-> TRUE, table |-> table \o price_records]
    ELSE [ret |-> FALSE, table |-> table]

\* return len(records) if success else 0
SaveOutcome(built, saved) ==
    [ret |-> IF saved.ret THEN Len(built.records) ELSE 0,
     table |-> saved.table,
     saved |-> IF saved.ret THEN built.records ELSE <<>>,
     rates |-> IF saved.ret THEN built.rates ELSE <<>>,
     cache |-> built.cache]

\* if records: save them
SaveBuilt(table, built, commit_ok) ==
    SaveOutcome(built, IF built.records # <<>>
                       THEN save_price_records(table, built.records, commit_ok)
                       ELSE [ret |-> FALSE, table |-> table])

\* main.py: returns the number of rows saved
_save_price_data(table, c, t, price_data, envs, commit_ok) ==
    SaveBuilt(table, SaveLoop(price_data, 1, c, t, envs), commit_ok)

\* cli.py: session.query(db_manager.PhoneModel) raises AttributeError on the
\* first item (DatabaseManager has no such attribute), which the except clause
\* turns into False; an empty list reaches save_price_records
cli_save_price_data(table, c, t, price_data, commit_ok) ==
    IF price_data = <<>>
    THEN [ret |-> save_price_records(table, <<>>, commit_ok).ret, table |-> table,
          saved |-> <<>>, rates |-> <<>>, cache |-> c]
    ELSE [ret |-> FALSE, table |-> table, saved |-> <<>>, rates |-> <<>>, cache |-> c]

---------------------------------------------------------------------------
(* Inputs *)

Currencies == {"USD", "EUR", "CHF"}
Amounts == {Zero, Rat(100, 1)}
RatePairs == {<<"EUR", "GBP">>}

NoCall == [op |-> "none"]

\* no resolution is under way
NoneRunning == <<>>

---------------------------------------------------------------------------
(* Converter actions *)

InitConv ==
    /\ cache = <<>>
    /\ fallback_rates = InitFallbackRates
    /\ api_key \in BOOLEAN
    /\ now = 0
    /\ records = <<>>
    /\ trends = <<>>
    /\ running = NoneRunning
    /\ last = NoCall

\* A call reads its environment only up to the first provider that answers
\* with a rate, and the INSERT only after such an answer: the environments
\* that differ in what is read
ReadEnvs ==
    {e \in Envs :
        /\ e.read_ok
        /\ \A p \in Providers : e.api[p] = Zero => p = 1
        /\ \A p \in Providers :
              (\E q \in 1 .. p - 1 : Truthy(e.api[q])) => e.api[p] = None
        /\ (\A p \in Providers : ~Truthy(e.api[p])) => e.store_ok}

QuietEnv == [api |-> [p \in Providers |-> None], store_ok |-> TRUE, read_ok |-> TRUE]

\* no provider is read on a cache hit, and fixer.io is not read without a key
EnvsFor(c, key, t, from, to) ==
    IF Truthy(_get_cached_rate(c, t, from, to))
    THEN {QuietEnv}
    ELSE {e \in ReadEnvs : ~key => e.api[2] = None}

\* A call is made when the caller holds no result of an earlier one
Idle == last.op = "none"

ConvertToUsd ==
    /\ Idle
    /\ \E amount \in Amounts, from \in Currencies :
        \E env \in (IF from = "USD" THEN {QuietEnv}
                    ELSE EnvsFor(cache, api_key, now, from, "USD")) :
            \E r \in {convert_to_usd(cache, fallback_rates, api_key, now, amount, from, env)} :
                /\ Len(r.cache) <= MaxCache
                /\ cache' = r.cache
                /\ last' = [op |-> "convert_to_usd", amount |-> amount, from |-> from,
                            to |-> "USD", ret |-> r.ret, rate |-> r.rate, log |-> r.log]
                /\ UNCHANGED <<fallback_rates, api_key, now, records, trends, running>>

GetExchangeRate ==
    /\ Idle
    /\ \E pair \in RatePairs :
        \E env \in EnvsFor(cache, api_key, now, pair[1], pair[2]) :
            \E r \in {get_exchange_rate(cache, fallback_rates, api_key, now, pair[1], pair[2], env)} :
                /\ Len(r.cache) <= MaxCache
                /\ cache' = r.cache
                /\ last' = [op |-> "get_exchange_rate", amount |-> None, from |-> pair[1],
                            to |-> pair[2], ret |-> r.ret, rate |-> r.ret, log |-> r.log]
                /\ UNCHANGED <<fallback_rates, api_key, now, records, trends, running>>

UpdateFallbackRates ==
    /\ Idle
    /\ fallback_rates' = update_fallback_rates(cache, fallback_rates)
    /\ last' = [op |-> "update_fallback_rates"]
    /\ UNCHANGED <<cache, api_key, now, records, trends, running>>

\* Time passes: one freshness window at a time, so that a row is in turn new,
\* exactly as old as the window, and older
TickHours == cache_duration_hours

Tick ==
    /\ Idle
    /\ now < MaxTicks * TickHours
    /\ now' = now + TickHours
    /\ UNCHANGED <<cache, fallback_rates, api_key, records, trends, running, last>>

\* The caller takes the result of the call and goes on
Return ==
    /\ ~Idle
    /\ last' = NoCall
    /\ UNCHANGED <<cache, fallback_rates, api_key, now, records, trends, running>>

NextConv == ConvertToUsd \/ GetExchangeRate \/ UpdateFallbackRates \/ Tick \/ Return

SpecConv == InitConv /\ [][NextConv]_vars

---------------------------------------------------------------------------
(* bulk_convert_to_usd on its own *)

\* batches whose items carry their list position (from 0) as index
Batches ==
    UNION {{[i \in 1 .. n |-> <<body[i][1], body[i][2], i - 1>>] :
                body \in [1 .. n -> Amounts \X Currencies]} : n \in 0 .. MaxBatch}

BatchCurrencies(batch) == {batch[i][2] : i \in 1 .. Len(batch)} \ {"USD"}

\* per currency of the batch: the first provider answers or no provider does
BulkEnvs ==
    {e \in ReadEnvs : e.store_ok /\ e.api[1] # Zero /\ e.api[2] = None /\ e.api[3] = None}

BulkConvertToUsd ==
    /\ Idle
    /\ \E batch \in Batches :
        \E envs \in [BatchCurrencies(batch) -> BulkEnvs] :
            \E r \in {bulk_convert_to_usd(cache, fallback_rates, api_key, now, batch, envs)} :
                /\ Len(r.cache) <= MaxCache
                /\ cache' = r.cache
                /\ last' = [op |-> "bulk_convert_to_usd", batch |-> batch, ret |-> r.ret,
                            calls |-> r.calls, log |-> r.log]
                /\ UNCHANGED <<fallback_rates, api_key, now, records, trends, running>>

\* CurrencyConverter(session), as main.py and cli.py construct it: no api key
InitBulk ==
    /\ cache = <<>>
    /\ fallback_rates = InitFallbackRates
    /\ api_key = FALSE
    /\ now = 0
    /\ records = <<>>
    /\ trends = <<>>
    /\ running = NoneRunning
    /\ last = NoCall

NextBulk == BulkConvertToUsd \/ Tick \/ Return

SpecBulk == InitBulk /\ [][NextBulk]_vars

---------------------------------------------------------------------------
(* The trend analyzer over a growing table of observations *)

InitTable ==
    /\ cache = <<>>
    /\ fallback_rates = InitFallbackRates
    /\ api_key = FALSE
    /\ now = 0
    /\ records = <<>>
    /\ trends = <<>>
    /\ running = NoneRunning
    /\ last = NoCall

\* USD prices of the observations of the trend runs
TrendPrices == {Rat(10, 1), Rat(40, 1)}

\* An observation is stored, with or without a USD price, stamped utcnow()
StoreObservation(m, pf, cond, p, resolved, avail) ==
    /\ Idle
    /\ Len(records) < MaxRecords
    /\ records' = Append(records,
                         PriceRecord(m, pf, cond, p, IF resolved THEN "USD" ELSE "CHF",
                                     IF resolved THEN p ELSE None, avail, now))
    /\ UNCHANGED <<cache, fallback_rates, api_key, now, trends, running, last>>

StoreTrendObservation ==
    \E pf \in PlatformIds, p \in TrendPrices, resolved \in BOOLEAN :
        /\ ~resolved => p = Rat(10, 1)
        /\ StoreObservation(1, pf, "Good", p, resolved, TRUE)

\* an id no row of table platforms has
UnknownId == 9

LookbackDays == {1, 30}

AnalyzeSingleCombination ==
    /\ Idle
    /\ \E pf \in PlatformIds \cup {UnknownId}, cond \in {"Good", "Fair"},
          days_back \in LookbackDays, ord \in ChronoOrders(records) :
            last' = [op |-> "_analyze_single_combination", phone_model_id |-> 1,
                     platform_id |-> pf, condition |-> cond, days_back |-> days_back,
                     ret |-> _analyze_single_combination(records, now, 1, pf, cond,
                                                         days_back, ord)]
    /\ UNCHANGED <<cache, fallback_rates, api_key, now, records, trends, running>>

AnalyzePriceTrends ==
    /\ Idle
    /\ \E days_back \in LookbackDays, ord \in ChronoOrders(records) :
            last' = [op |-> "analyze_price_trends", days_back |-> days_back,
                     ret |-> analyze_price_trends(records, now, days_back, ord)]
    /\ UNCHANGED <<cache, fallback_rates, api_key, now, records, trends, running>>

\* _calculate_confidence_score called on a frame of n rows, as the tests do
CalculateConfidenceScore ==
    /\ Idle
    /\ \E n \in {1, 2, 3, 20, 25}, avg \in {Rat(100, 1)}, vol \in {Zero, Rat(10, 1), Rat(60, 1)},
          span \in {0, 15, 30, 45} :
            last' = [op |-> "_calculate_confidence_score", n |-> n, avg_price |-> avg,
                     volatility |-> vol, days_span |-> span,
                     ret |-> _calculate_confidence_score(n, avg, vol, span)]
    /\ UNCHANGED <<cache, fallback_rates, api_key, now, records, trends, running>>

NextTrend ==
    \/ StoreTrendObservation
    \/ AnalyzeSingleCombination
    \/ AnalyzePriceTrends
    \/ CalculateConfidenceScore
    \/ Tick
    \/ Return

SpecTrend == InitTable /\ [][NextTrend]_vars

---------------------------------------------------------------------------
(* The insight queries over a growing table of observations *)

\* what the observations of the insight runs offer: price, priced in USD or
\* left unconverted, in stock or not
InsightOffers ==
    {<<Rat(10, 1), TRUE, TRUE>>, <<Rat(40, 1), TRUE, TRUE>>,
     <<Rat(10, 1), TRUE, FALSE>>, <<Rat(40, 1), FALSE, TRUE>>}

StoreInsightObservation ==
    \E pf \in PlatformIds, cond \in {"Good", "Fair"}, o \in InsightOffers :
        StoreObservation(1, pf, cond, o[1], o[2], o[3])

\* four days go by: what was stored before is older than the 3 days of
\* find_best_deals
PassDays ==
    /\ Idle
    /\ now < MaxTicks * Days(2)
    /\ now' = now + Days(4)
    /\ UNCHANGED <<cache, fallback_rates, api_key, records, trends, running, last>>

ProfitThresholds == {Rat(10, 1), Rat(400, 1)}

FindArbitrageOpportunities ==
    /\ Idle
    /\ \E min_profit_percent \in ProfitThresholds, ord \in Perms(Len(records)) :
            last' = [op |-> "find_arbitrage_opportunities",
                     min_profit_percent |-> min_profit_percent,
                     ret |-> find_arbitrage_opportunities(records, min_profit_percent, ord)]
    /\ UNCHANGED <<cache, fallback_rates, api_key, now, records, trends, running>>

FindBestDeals ==
    /\ Idle
    /\ \E top_n \in 0 .. MaxRecords, ord \in DealOrders(records, now) :
            last' = [op |-> "find_best_deals", top_n |-> top_n,
                     ret |-> find_best_deals(records, now, top_n, ord)]
    /\ UNCHANGED <<cache, fallback_rates, api_key, now, records, trends, running>>

NextInsight ==
    \/ StoreInsightObservation
    \/ FindArbitrageOpportunities
    \/ FindBestDeals
    \/ PassDays
    \/ Return

SpecInsight == InitTable /\ [][NextInsight]_vars

---------------------------------------------------------------------------
(* The save paths over the table and the rate cache *)

ScrapedPrice == Rat(100, 1)

\* listings of platform 1 in each currency, and one of a platform without a row
ScrapedItems ==
    {PriceData(1, ScrapedPrice, cur) : cur \in Currencies}
        \cup {PriceData(UnknownId, ScrapedPrice, "EUR")}

ScrapedLists == UNION {[1 .. n -> ScrapedItems] : n \in 0 .. MaxItems}

\* per item: the first provider answers with a rate, or no provider answers
SaveEnvs ==
    {e \in ReadEnvs : e.store_ok /\ e.api[1] \in {None, Rat(2, 1)}
                      /\ e.api[2] = None /\ e.api[3] = None}

\* fallback_rates is the table of the converter constructed last: the save
\* constructs its own
SavePriceData ==
    /\ Idle
    /\ \E price_data \in ScrapedLists, commit_ok \in BOOLEAN :
        \E envs \in [1 .. Len(price_data) -> SaveEnvs] :
            /\ \A k \in 1 .. Len(price_data) :
                   (price_data[k].platform \notin PlatformIds \/ price_data[k].currency = "USD")
                       => envs[k] = QuietEnv
            /\ \E r \in {_save_price_data(records, cache, now, price_data, envs, commit_ok)} :
                /\ Len(r.cache) <= MaxCache
                /\ Len(r.table) <= MaxRecords
                /\ cache' = r.cache
                /\ records' = r.table
                /\ last' = [op |-> "_save_price_data", ret |-> r.ret, saved |-> r.saved,
                            rates |-> r.rates]
                /\ fallback_rates' = InitFallbackRates
                /\ UNCHANGED <<api_key, now, trends, running>>

CliSavePriceData ==
    /\ Idle
    /\ \E price_data \in ScrapedLists, commit_ok \in BOOLEAN :
        \E r \in {cli_save_price_data(records, cache, now, price_data, commit_ok)} :
            /\ cache' = r.cache
            /\ records' = r.table
            /\ last' = [op |-> "cli._save_price_data", ret |-> r.ret, saved |-> r.saved,
                        rates |-> r.rates]
            /\ UNCHANGED <<fallback_rates, api_key, now, trends, running>>

\* the saves of one scraping run: the clock does not move between them
NextSave == SavePriceData \/ CliSavePriceData \/ Return

SpecSave == InitTable /\ [][NextSave]_vars

---------------------------------------------------------------------------
(* The maintenance task between the saves of two scraping cycles *)

\* cleanup_old_records: the rows older than keep_days are deleted
cleanup_old_records(table, t, keep_days) ==
    SelectSeq(table, LAMBDA r : ~(r.scrape_timestamp < t - Days(keep_days)))

\* run_maintenance_tasks: the cleanup, then a converter of its own whose
\* table is refreshed; an exception of the cleanup ends the task
run_maintenance_tasks(table, c, t, cleanup_ok) ==
    IF cleanup_ok
    THEN [table |-> cleanup_old_records(table, t, 90), constructed |-> TRUE,
          fallback_rates |-> update_fallback_rates(c, InitFallbackRates)]
    ELSE [table |-> table, constructed |-> FALSE, fallback_rates |-> InitFallbackRates]

RunMaintenanceTasks ==
    /\ Idle
    /\ \E cleanup_ok \in BOOLEAN :
        \E r \in {run_maintenance_tasks(records, cache, now, cleanup_ok)} :
            /\ records' = r.table
            /\ fallback_rates' = IF r.constructed THEN r.fallback_rates ELSE fallback_rates
            /\ last' = [op |-> "run_maintenance_tasks", refreshed |-> r.constructed]
    /\ UNCHANGED <<cache, api_key, now, trends, running>>

\* the most rows of price_records in the runs with the maintenance task
MaxMaintenanceRows == 2

\* the save of a scraping cycle, while the table is within its bound
SaveOfCycle == SavePriceData /\ Len(records') <= MaxMaintenanceRows

NextMaintenance == SaveOfCycle \/ RunMaintenanceTasks \/ PassDays \/ Return

SpecMaintenance == InitTable /\ [][NextMaintenance]_vars

---------------------------------------------------------------------------
(* The price change of an analysis, over every price the column can hold *)

\* price_usd is a nullable Float without a CHECK: 0.0 is a value of it
ChangePrices == {Zero, Rat(10, 1), Rat(40, 1)}

StoreChangeObservation ==
    \E p \in ChangePrices : StoreObservation(1, 1, "Good", p, TRUE, TRUE)

NextChange == StoreChangeObservation \/ AnalyzeSingleCombination \/ Tick \/ Return

SpecChange == InitTable /\ [][NextChange]_vars

---------------------------------------------------------------------------
(* The trend direction, on frames and on stored observations *)

\* the longest frame handed to _determine_trend_direction directly
MaxSeries == 4

\* prices around 200: a step of 1 per row is 0.5% of the mean
DirectionPrices == {Rat(199, 1), Rat(200, 1), Rat(201, 1)}

DirectionSeries == UNION {[1 .. n -> DirectionPrices] : n \in 1 .. MaxSeries}

StoreDirectionObservation ==
    \E p \in DirectionPrices : StoreObservation(1, 1, "Good", p, TRUE, TRUE)

\* _determine_trend_direction called on a frame of prices, as the tests do
DetermineTrendDirection ==
    /\ Idle
    /\ \E y \in DirectionSeries :
            last' = [op |-> "_determine_trend_direction", y |-> y,
                     ret |-> _determine_trend_direction(y)]
    /\ UNCHANGED <<cache, fallback_rates, api_key, now, records, trends, running>>

NextDirection ==
    \/ StoreDirectionObservation
    \/ AnalyzeSingleCombination
    \/ DetermineTrendDirection
    \/ Tick
    \/ PassDays
    \/ Return

SpecDirection == InitTable /\ [][NextDirection]_vars

---------------------------------------------------------------------------
(* find_arbitrage_opportunities over two groups of two marketplaces *)

\* rows the table may hold in these runs
MaxArbitrageRows == 4

\* the USD prices on offer (None: not converted): the groups differ in what
\* there is to gain
ArbitrageOffers(pf, cond) ==
    IF cond = "Good" THEN {Rat(500, 1), Rat(600, 1), None}
    ELSE IF pf = 1 THEN {Rat(500, 1)} ELSE {Rat(1000, 1)}

StoreArbitrageObservation ==
    /\ Idle
    /\ Len(records) < MaxArbitrageRows
    /\ \E pf \in PlatformIds, cond \in {"Good", "Fair"} :
        \E p \in ArbitrageOffers(pf, cond) :
            records' = Append(records,
                              PriceRecord(1, pf, cond, Rat(500, 1),
                                          IF p = None THEN "CHF" ELSE "USD", p, TRUE, now))
    /\ UNCHANGED <<cache, fallback_rates, api_key, now, trends, running, last>>

ArbitrageThresholds == {Rat(10, 1), Rat(50, 1)}

FindArbitrage ==
    /\ Idle
    /\ \E min_profit_percent \in ArbitrageThresholds, ord \in Perms(Len(records)) :
            last' = [op |-> "find_arbitrage_opportunities",
                     min_profit_percent |-> min_profit_percent,
                     ret |-> find_arbitrage_opportunities(records, min_profit_percent, ord)]
    /\ UNCHANGED <<cache, fallback_rates, api_key, now, records, trends, running>>

NextArbitrage == StoreArbitrageObservation \/ FindArbitrage \/ PassDays \/ Return

SpecArbitrage == InitTable /\ [][NextArbitrage]_vars

---------------------------------------------------------------------------
(* find_significant_price_changes over the table price_trends *)

\* rows the table price_trends may hold
MaxTrends == 3

\* price_change_percent is a nullable Float
TrendChanges == {Rat(-20, 1), Zero, Rat(15, 1), None}

\* a snapshot is stored, dated utcnow()
StoreTrendSnapshot ==
    /\ Idle
    /\ Len(trends) < MaxTrends
    /\ \E pf \in {1, UnknownId}, period \in {"weekly", "monthly"}, change \in TrendChanges :
          /\ pf = UnknownId => (period = "weekly" /\ change = Rat(15, 1))
          /\ trends' = Append(trends, PriceTrend(1, pf, period, now, change))
    /\ UNCHANGED <<cache, fallback_rates, api_key, now, records, running, last>>

\* eight days go by: what was stored before is older than a week
PassWeek ==
    /\ Idle
    /\ now < MaxTicks * Days(4)
    /\ now' = now + Days(8)
    /\ UNCHANGED <<cache, fallback_rates, api_key, records, trends, running, last>>

ChangeThresholds == {Zero, Rat(10, 1)}

FindSignificantPriceChanges ==
    /\ Idle
    /\ \E min_change_percent \in ChangeThresholds :
        \E ord \in TrendOrders(trends, now, min_change_percent) :
            last' = [op |-> "find_significant_price_changes",
                     min_change_percent |-> min_change_percent,
                     ret |-> find_significant_price_changes(trends, now,
                                                            min_change_percent, ord)]
    /\ UNCHANGED <<cache, fallback_rates, api_key, now, records, trends, running>>

NextChanges == StoreTrendSnapshot \/ FindSignificantPriceChanges \/ PassWeek \/ Return

SpecChanges == InitTable /\ [][NextChanges]_vars

---------------------------------------------------------------------------
(* get_exchange_rate over every answer a provider can give *)

\* the pairs resolved: one with a fallback rate, one without, one of a
\* currency with itself
TierPairs == {<<"EUR", "USD">>, <<"CHF", "USD">>, <<"EUR", "EUR">>}

TierOutcomes == ProviderOutcomes \cup {Raised, NonNumeric}

\* the environments that differ in what a call reads of them
TierEnvs ==
    {e \in [api : [Providers -> TierOutcomes], store_ok : BOOLEAN, read_ok : {TRUE}] :
        /\ \A p \in Providers : e.api[p] \in {Zero, NonNumeric} => p = 1
        /\ \A p \in Providers :
              (\E q \in 1 .. p - 1 : Truthy(Caught(e.api[q]))) => e.api[p] = None
        /\ (\A p \in Providers : ~Truthy(Caught(e.api[p]))) => e.store_ok}

TierEnvsFor(c, key, t, from, to) ==
    IF Truthy(_get_cached_rate(c, t, from, to))
    THEN {QuietEnv}
    ELSE {e \in TierEnvs : ~key => e.api[2] = None}

ResolveRate ==
    /\ Idle
    /\ \E pair \in TierPairs :
        \E env \in TierEnvsFor(cache, api_key, now, pair[1], pair[2]) :
            \E r \in {get_exchange_rate(cache, fallback_rates, api_key, now, pair[1], pair[2], env)} :
                /\ Len(r.cache) <= MaxCache
                /\ cache' = r.cache
                /\ last' = [op |-> "get_exchange_rate", amount |-> None, from |-> pair[1],
                            to |-> pair[2], ret |-> r.ret, rate |-> r.ret, log |-> r.log,
                            env |-> env]
                /\ UNCHANGED <<fallback_rates, api_key, now, records, trends, running>>

NextTiers == ResolveRate \/ Tick \/ Return

SpecTiers == InitConv /\ [][NextTiers]_vars

---------------------------------------------------------------------------
(* convert_to_usd while the database may fail *)

\* the SELECT of _get_cached_rate raises; nothing else of the call is read
OutageEnv == [QuietEnv EXCEPT !.read_ok = FALSE]

OutageEnvsFor(c, key, t, from) ==
    IF from = "USD" THEN {QuietEnv}
    ELSE EnvsFor(c, key, t, from, "USD") \cup {OutageEnv}

ConvertDuringOutage ==
    /\ Idle
    /\ \E amount \in Amounts, from \in Currencies :
        \E env \in OutageEnvsFor(cache, api_key, now, from) :
            \E r \in {convert_to_usd(cache, fallback_rates, api_key, now, amount, from, env)} :
                /\ Len(r.cache) <= MaxCache
                /\ cache' = r.cache
                /\ last' = [op |-> "convert_to_usd", amount |-> amount, from |-> from,
                            to |-> "USD", ret |-> r.ret, rate |-> r.rate, log |-> r.log]
                /\ UNCHANGED <<fallback_rates, api_key, now, records, trends, running>>

NextOutage == ConvertDuringOutage \/ Tick \/ Return

SpecOutage == InitConv /\ [][NextOutage]_vars

---------------------------------------------------------------------------
(* Two resolutions of one pair under way at once, each on its own session *)

\* the pair both resolutions ask for
RacePair == <<"EUR", "USD">>

\* the first provider answers with a rate or fails; the INSERT commits
RaceEnvs ==
    {e \in Envs : /\ e.read_ok
                  /\ e.store_ok
                  /\ e.api[1] \in {None, Rat(2, 1), Rat(4, 5)}
                  /\ e.api[2] = None
                  /\ e.api[3] = None}

\* order_by(date.desc()).first(): the rows that may come first, which is any
\* of the rows of the newest date
FirstRows(c, rows) == {i \in rows : \A j \in rows : c[j].date <= c[i].date}

\* what _get_cached_rate may return
CachedRates(c, t, from, to) ==
    LET rows == FreshRows(c, t, from, to)
    IN  IF rows # {} THEN {c[i].rate : i \in FirstRows(c, rows)} ELSE {None}

\* a resolution that left the cache tier without a rate
Resolution(pc, from, to, rate) == [pc |-> pc, from |-> from, to |-> to, rate |-> rate]

Without(s, i) == SubSeq(s, 1, i - 1) \o SubSeq(s, i + 1, Len(s))

\* get_exchange_rate up to the cache tier: a hit returns, a miss goes on
LookupRate ==
    /\ Idle
    /\ \E cached_rate \in CachedRates(cache, now, RacePair[1], RacePair[2]) :
          IF Truthy(cached_rate)
          THEN /\ last' = [op |-> "get_exchange_rate", from |-> RacePair[1], to |-> RacePair[2],
                           tier |-> "cache", ret |-> cached_rate]
               /\ UNCHANGED running
          ELSE /\ Len(cache) + Len(running) < MaxCache
               /\ running' = Append(running, Resolution("fetch", RacePair[1], RacePair[2], None))
               /\ UNCHANGED last
    /\ UNCHANGED <<cache, fallback_rates, api_key, now, records, trends>>

\* the provider tier of a resolution, and the fallback tier when it fails
FetchRate ==
    \E i \in 1 .. Len(running), env \in RaceEnvs :
        /\ running[i].pc = "fetch"
        /\ \E api \in {_fetch_rate_from_api(api_key, running[i].from, running[i].to, env)} :
              running' = [running EXCEPT ![i] =
                  IF Truthy(api.ret)
                  THEN Resolution("store", running[i].from, running[i].to, api.ret)
                  ELSE Resolution("fallback", running[i].from, running[i].to,
                                  _get_fallback_rate(fallback_rates, running[i].from,
                                                     running[i].to))]
        /\ UNCHANGED <<cache, fallback_rates, api_key, now, records, trends, last>>

\* _cache_rate of a resolution: the row is dated by the clock at the INSERT
StoreRate ==
    \E i \in 1 .. Len(running), env \in RaceEnvs :
        /\ running[i].pc = "store"
        /\ cache' = _cache_rate(cache, now, running[i].from, running[i].to,
                                running[i].rate, env)
        /\ running' = [running EXCEPT ![i].pc = "api"]
        /\ UNCHANGED <<fallback_rates, api_key, now, records, trends, last>>

\* a resolution returns the rate it holds
ReturnRate ==
    /\ Idle
    /\ \E i \in 1 .. Len(running) :
        /\ running[i].pc \in {"api", "fallback"}
        /\ last' = [op |-> "get_exchange_rate", from |-> running[i].from, to |-> running[i].to,
                    tier |-> running[i].pc, ret |-> running[i].rate]
        /\ running' = Without(running, i)
    /\ UNCHANGED <<cache, fallback_rates, api_key, now, records, trends>>

NextRace == LookupRate \/ FetchRate \/ StoreRate \/ ReturnRate \/ Tick \/ Return

SpecRace == InitConv /\ [][NextRace]_vars

---------------------------------------------------------------------------
(* What a call read of its environment, from its tier log *)

GotOf(log, tier, who) ==
    IF \E i \in 1 .. Len(log) : log[i].tier = tier /\ log[i].who = who
    THEN log[CHOOSE i \in 1 .. Len(log) : log[i].tier = tier /\ log[i].who = who].got
    ELSE None

EnvOfLog(log) ==
    [api |-> [p \in Providers |-> GotOf(log, "api", p)],
     store_ok |-> ~IsNone(GotOf(log, "store", 0)),
     read_ok |-> GotOf(log, "cache", 0) # Raised]

HasTier(log, tier) == \E i \in 1 .. Len(log) : log[i].tier = tier

---------------------------------------------------------------------------
(* Claims *)

\* C1: for every non-USD currency and every amount, in every state of the
\* cache, the providers and the fallback table, convert_to_usd returns the
\* amount divided by the rate get_exchange_rate(c, 'USD') resolves in the
\* state the call is made in, and None exactly when no rate resolves.
C1_ConvertDividesByResolvedRate ==
    [][(last'.op = "convert_to_usd" /\ last'.from # "USD") =>
          LET g == get_exchange_rate(cache, fallback_rates, api_key, now,
                                     last'.from, "USD", EnvOfLog(last'.log))
          IN  /\ IsNone(g.ret) <=> IsNone(last'.ret)
              /\ ~IsNone(g.ret) => last'.ret = RDiv(last'.amount, g.ret)
              /\ cache' = g.cache]_vars

C1_Witness ==
    /\ last.op = "convert_to_usd"
    /\ last.from = "EUR"
    /\ last.amount = Rat(100, 1)
    /\ last.rate = Rat(4, 5)
    /\ last.ret = Rat(125, 1)

\* C2: convert_to_usd(x, 'USD') returns x unchanged, reads no tier (no
\* cache lookup, no provider, no fallback table) and leaves the cache as
\* it was.
C2_UsdIsIdentityWithoutTiers ==
    [][(last'.op = "convert_to_usd" /\ last'.from = "USD") =>
          /\ last'.ret = last'.amount
          /\ last'.log = <<>>
          /\ cache' = cache]_vars

C2_Witness ==
    /\ last.op = "convert_to_usd"
    /\ last.from = "USD"
    /\ last.ret = Rat(100, 1)
    /\ cache # <<>>

\* the currencies of the fallback table and one that is not in it
ProbeCurrencies == DOMAIN InitFallbackRates \cup {"CHF"}

\* C3: for two different currencies A and B the fallback tier returns
\* fallback[B] / fallback[A] when both are in the table and None when one
\* is absent, for every table update_fallback_rates can produce.
C3_FallbackCrossRate ==
    \A A \in ProbeCurrencies, B \in ProbeCurrencies :
        A # B =>
            _get_fallback_rate(fallback_rates, A, B) =
                IF A \in DOMAIN fallback_rates /\ B \in DOMAIN fallback_rates
                THEN RDiv(fallback_rates[B], fallback_rates[A])
                ELSE None

C3_Witness ==
    /\ fallback_rates["EUR"] = Rat(2, 1)
    /\ last.op = "get_exchange_rate"
    /\ last.from = "EUR" /\ last.to = "GBP"
    /\ HasTier(last.log, "fallback")
    /\ last.ret = Rat(73, 200)

\* the rate the call resolved for a currency of the batch (None: unresolved)
ResolvedIn(calls, currency) ==
    IF \E i \in 1 .. Len(calls) : calls[i].currency = currency
    THEN calls[CHOOSE i \in 1 .. Len(calls) : calls[i].currency = currency].rate
    ELSE None

\* the conversion result of one batch item under the rates of the call
ItemResult(item, calls) ==
    IF item[2] = "USD" THEN item[1]
    ELSE IF Truthy(ResolvedIn(calls, item[2]))
         THEN RDiv(item[1], ResolvedIn(calls, item[2]))
         ELSE None

\* C4: for a batch whose items carry their list position as index, the
\* list bulk_convert_to_usd returns is as long as the batch and its i-th
\* element is the conversion result of the i-th item, whatever the order
\* in which the currencies appear and are grouped.
C4_BulkKeepsInputOrder ==
    last.op = "bulk_convert_to_usd" =>
        /\ Len(last.ret) = Len(last.batch)
        /\ \A i \in 1 .. Len(last.batch) :
              last.ret[i] = ItemResult(last.batch[i], last.calls)

\* EUR, USD, EUR: the grouping puts the third item before the second
C4_Witness ==
    /\ last.op = "bulk_convert_to_usd"
    /\ Len(last.batch) = 3
    /\ last.batch[1][2] = "EUR" /\ last.batch[2][2] = "USD" /\ last.batch[3][2] = "EUR"
    /\ last.batch[2][1] # last.batch[3][1]
    /\ last.ret = <<Rat(50, 1), Rat(100, 1), Zero>>

\* The observations of a combination with a USD price, no older than the
\* lookback window, as the claims count them
InWindow(m, pf, cond, days_back) ==
    {i \in 1 .. Len(records) :
        /\ records[i].phone_model_id = m
        /\ records[i].platform_id = pf
        /\ records[i].condition = cond
        /\ records[i].price_usd # None
        /\ now - records[i].scrape_timestamp <= days_back * 24}

\* C5: with fewer than 2 observations of a combination that have a USD
\* price and lie inside the lookback window, the trend analysis returns
\* None, and analyze_price_trends emits no analysis for the combination.
C5_FewerThanTwoGivesNone ==
    /\ last.op = "_analyze_single_combination" =>
           (Cardinality(InWindow(last.phone_model_id, last.platform_id, last.condition,
                                 last.days_back)) < 2
                => last.ret.kind = "None")
    /\ last.op = "analyze_price_trends" =>
           \A a \in last.ret :
               Cardinality(InWindow(a.phone_model, a.platform, a.condition,
                                    last.days_back)) >= 2

\* two observations with a price, one of them older than the window
C5_Witness ==
    /\ last.op = "_analyze_single_combination"
    /\ last.days_back = 1
    /\ Cardinality(InWindow(1, last.platform_id, last.condition, 30)) = 2
    /\ Cardinality(InWindow(1, last.platform_id, last.condition, 1)) = 1
    /\ last.ret.kind = "None"

\* C6: with fewer than 3 qualifying points (so with exactly 2, even when
\* the price moves) the direction is 'stable' and the confidence is 0.3.
C6_TwoPointsStableAndPoint3 ==
    /\ (last.op = "_analyze_single_combination" /\ last.ret.kind = "PriceAnalysis") =>
           (Cardinality(InWindow(last.phone_model_id, last.platform_id, last.condition,
                                 last.days_back)) < 3
                => /\ last.ret.trend_direction = "stable"
                   /\ last.ret.confidence_score = Rat(3, 10))
    /\ (last.op = "_calculate_confidence_score" /\ last.n < 3) => last.ret = Rat(3, 10)

C6_Witness ==
    /\ last.op = "_analyze_single_combination"
    /\ last.ret.kind = "PriceAnalysis"
    /\ Cardinality(InWindow(1, last.platform_id, last.condition, last.days_back)) = 2
    /\ last.ret.previous_price = Rat(10, 1)
    /\ last.ret.current_price = Rat(40, 1)
    /\ last.ret.volatility # Zero
    /\ last.ret.trend_direction = "stable"
    /\ last.ret.confidence_score = Rat(3, 10)

\* clamp(0.4*min(n/20,1) + 0.4*max(0, 1 - 2*volatility/mean) + 0.2*min(span/30,1), 0.1, 1.0)
ClaimedConfidence(n, mean, volatility, span_days) ==
    LET density == IF n >= 20 THEN One ELSE Rat(n, 20)
        ratio == RDiv(RMul(Int2Rat(2), volatility), mean)
        calm == IF RLess(One, ratio) THEN Zero ELSE RSub(One, ratio)
        span == IF span_days >= 30 THEN One ELSE Rat(span_days, 30)
        blend == RAdd(RAdd(RMul(Rat(2, 5), density), RMul(Rat(2, 5), calm)),
                      RMul(Rat(1, 5), span))
    IN  IF RLess(blend, Rat(1, 10)) THEN Rat(1, 10)
        ELSE IF RLess(One, blend) THEN One ELSE blend

RECURSIVE SumOver(_)
SumOver(idx) ==
    IF idx = {} THEN Zero
    ELSE LET i == CHOOSE j \in idx : TRUE
         IN  RAdd(records[i].price_usd, SumOver(idx \ {i}))

SpanDaysOver(idx) ==
    LET newest == CHOOSE i \in idx : \A j \in idx :
                      records[j].scrape_timestamp <= records[i].scrape_timestamp
        oldest == CHOOSE i \in idx : \A j \in idx :
                      records[j].scrape_timestamp >= records[i].scrape_timestamp
    IN  (records[newest].scrape_timestamp - records[oldest].scrape_timestamp) \div 24

\* C7: the confidence of every analysis lies in [0.1, 1.0]; with 3 or more
\* points it is the clamped blend of density, volatility and span scores.
C7_ConfidenceRangeAndBlend ==
    /\ (last.op = "_analyze_single_combination" /\ last.ret.kind = "PriceAnalysis") =>
           LET idx == InWindow(last.phone_model_id, last.platform_id, last.condition,
                               last.days_back)
               n == Cardinality(idx)
           IN  /\ RLeq(Rat(1, 10), last.ret.confidence_score)
               /\ RLeq(last.ret.confidence_score, One)
               /\ n >= 3 =>
                      last.ret.confidence_score =
                          ClaimedConfidence(n, RDiv(SumOver(idx), Int2Rat(n)),
                                            last.ret.volatility, SpanDaysOver(idx))
    /\ last.op = "_calculate_confidence_score" =>
           /\ RLeq(Rat(1, 10), last.ret)
           /\ RLeq(last.ret, One)
           /\ last.n >= 3 =>
                  last.ret = ClaimedConfidence(last.n, last.avg_price, last.volatility,
                                               last.days_span)

\* three points so far apart that the blend falls below the floor
C7_Witness ==
    /\ last.op = "_analyze_single_combination"
    /\ last.ret.kind = "PriceAnalysis"
    /\ Cardinality(InWindow(1, last.platform_id, last.condition, last.days_back)) = 3
    /\ RLess(Rat(15, 1), last.ret.volatility)
    /\ last.ret.confidence_score = Rat(1, 10)

\* the marketplaces that have an observation, hence a latest one, of a
\* (variant, condition)
MarketplacesOf(m, cond) ==
    {records[i].platform_id :
        i \in {j \in 1 .. Len(records) :
                  records[j].phone_model_id = m /\ records[j].condition = cond}}

\* C8: every arbitrage insight comes from a (variant, condition) group in
\* which at least 2 distinct marketplaces have a latest observation, names
\* two different marketplaces as cheapest and priciest, and has a profit
\* percent of at least min_profit_percent.
C8_ArbitrageNeedsTwoMarketplaces ==
    last.op = "find_arbitrage_opportunities" =>
        \A k \in 1 .. Len(last.ret) :
            /\ \E cond \in {"Good", "Fair"} :
                   Cardinality(MarketplacesOf(last.ret[k].phone_model, cond)) >= 2
            /\ last.ret[k].platform[1] # last.ret[k].platform[2]
            /\ RLeq(last.min_profit_percent, last.ret[k].value)

\* the rows priced at the lowest recent in-stock price of their group
MatchedDeals ==
    {i \in 1 .. Len(records) :
        /\ records[i].price_usd # None
        /\ \E j \in 1 .. Len(records) :
            /\ records[j].phone_model_id = records[i].phone_model_id
            /\ records[j].condition = records[i].condition
            /\ records[j].price_usd = records[i].price_usd
            /\ records[j].availability
            /\ now - records[j].scrape_timestamp <= 72
            /\ \A q \in 1 .. Len(records) :
                   (/\ records[q].phone_model_id = records[i].phone_model_id
                    /\ records[q].condition = records[i].condition
                    /\ records[q].price_usd # None
                    /\ records[q].availability
                    /\ now - records[q].scrape_timestamp <= 72)
                       => RLeq(records[j].price_usd, records[q].price_usd)}

\* C9: find_best_deals returns at most top_n insights, in ascending order
\* of price (the insight's value).
C9_BestDealsBoundedAndAscending ==
    last.op = "find_best_deals" =>
        /\ Len(last.ret) <= last.top_n
        /\ \A a, b \in 1 .. Len(last.ret) :
               a < b => RLeq(last.ret[a].value, last.ret[b].value)

\* more rows match than top_n allows, and the prices returned differ
C9_Witness ==
    /\ last.op = "find_best_deals"
    /\ last.top_n = 2
    /\ Cardinality(MatchedDeals) > 2
    /\ Len(last.ret) = 2
    /\ RLess(last.ret[1].value, last.ret[2].value)

\* C10: every record a save path stores has a price_usd that is null or the
\* raw price divided by the rate resolved at save time; when no rate resolves
\* for a non-USD observation the stored price_usd is null, never the raw
\* foreign amount and never zero.
C10_StoredUsdIsNullOrConverted ==
    last.op \in {"_save_price_data", "cli._save_price_data"} =>
        \A k \in 1 .. Len(last.saved) :
            LET r == last.saved[k]
                rate == last.rates[k]
            IN  /\ \/ r.price_usd = None
                   \/ Truthy(rate) /\ r.price_usd = RDiv(r.price, rate)
                /\ (r.currency # "USD" /\ ~Truthy(rate)) => r.price_usd = None
                /\ r.price_usd # Zero

\* the observations of a variant in a condition, on any marketplace
ObservationsOf(m, cond) ==
    {i \in 1 .. Len(records) :
        records[i].phone_model_id = m /\ records[i].condition = cond}

\* C11: every analysis and every insight (arbitrage or best deal) is backed
\* by at least 2 observations: one observation alone of a combination or of
\* a (variant, condition) group never produces an analysis or an insight.
C11_TwoObservationsBehindEveryResult ==
    /\ last.op = "analyze_price_trends" =>
           \A a \in last.ret :
               Cardinality(InWindow(a.phone_model, a.platform, a.condition,
                                    last.days_back)) >= 2
    /\ last.op \in {"find_arbitrage_opportunities", "find_best_deals"} =>
           \A k \in 1 .. Len(last.ret) :
               \E cond \in {"Good", "Fair"} :
                   Cardinality(ObservationsOf(last.ret[k].phone_model, cond)) >= 2

\* C12: convert_to_usd never raises: in every call of a non-USD currency that
\* no tier answers with a rate (the cache gives none or its store fails, no
\* provider gives one, the currency has no fallback rate) it returns None as a
\* value, and the cache is as it was before the call.
C12_NoRateGivesNoneNotAnException ==
    [][(last.op = "none" /\ last'.op = "convert_to_usd" /\ last'.from # "USD"
        /\ ~Truthy(last'.rate))
       => (last'.ret = None /\ cache' = cache)]_vars

\* the entries of a pair whose age is at most the freshness window of 24 hours
FreshEntriesIn(c, t, from, to) ==
    {i \in 1 .. Len(c) : /\ c[i].from_currency = from
                         /\ c[i].to_currency = to
                         /\ t - c[i].date <= 24}

MostRecentIn(c, entries) == {i \in entries : \A j \in entries : c[j].date <= c[i].date}

\* C13: whenever the cache holds an entry of the pair no older than the
\* freshness window, get_exchange_rate returns the rate of the most recent
\* such entry, asks no provider and writes no entry; what the cache tier gives
\* is never the rate of an entry older than the window.
C13_FreshCacheEntryAnswers ==
    [][(last.op = "none" /\ last'.op = "get_exchange_rate")
       => LET fresh == FreshEntriesIn(cache, now, last'.from, last'.to)
          IN  /\ fresh # {} =>
                    /\ \E i \in MostRecentIn(cache, fresh) : last'.ret = cache[i].rate
                    /\ ~HasTier(last'.log, "api")
                    /\ ~HasTier(last'.log, "store")
                    /\ cache' = cache
              /\ fresh = {} => GotOf(last'.log, "cache", 0) = None]_vars

C13_Witness ==
    /\ last.op = "get_exchange_rate"
    /\ Len(cache) = 2
    /\ \A i \in 1 .. 2 : cache[i].from_currency = last.from /\ cache[i].to_currency = last.to
    /\ now - cache[1].date > 24
    /\ now - cache[2].date <= 24
    /\ cache[1].rate # cache[2].rate
    /\ last.ret = cache[2].rate
    /\ last.log = <<Entry("cache", 0, cache[2].rate)>>

\* what the providers answered in a call, in the order they were asked
ProviderAnswers(log) == SelectSeq(log, LAMBDA e : e.tier = "api")

\* the cache after one more entry of the pair
WithEntry(c, t, from, to, rate) ==
    Append(c, [from_currency |-> from, to_currency |-> to, rate |-> rate, date |-> t])

\* a resolution of the pair h hours later is answered by the cache with rate
ServedFromCache(c, t, h, from, to, rate) ==
    get_exchange_rate(c, fallback_rates, api_key, t + h, from, to, QuietEnv).log
        = <<Entry("cache", 0, rate)>>

\* what C14 says of a call that missed the cache, given what the call has to
\* leave in the cache after a provider gave a rate
ProvidersInOrder(written) ==
    (last.op = "none" /\ last'.op = "get_exchange_rate" /\ HasTier(last'.log, "api"))
    => LET answers == ProviderAnswers(last'.log)
       IN  /\ \A k \in 1 .. Len(answers) : answers[k].who = k
           /\ \A k \in 1 .. Len(answers) :
                 Truthy(answers[k].got) =>
                     /\ k = Len(answers)
                     /\ last'.ret = answers[k].got
                     /\ written

\* C14 as stated: on a cache miss the providers are asked in the order
\* exchangerate-api, fixer.io, exchangerate.host; the first that returns a
\* rate ends the sequence, its rate is written to the cache for the pair
\* exactly once and returned, and a later resolution of the pair within the
\* freshness window is served from the cache.
C14_FirstProviderRateCachedOnce ==
    [][ProvidersInOrder(
           /\ cache' = WithEntry(cache, now, last'.from, last'.to, last'.ret)
           /\ \A h \in {0, cache_duration_hours} :
                 ServedFromCache(cache', now, h, last'.from, last'.to, last'.ret))]_vars

\* C14, amended: the same when the INSERT of the rate commits; when it does
\* not, the rate is returned all the same, the cache is left as it was, and a
\* later resolution of the pair is not served from the cache.
C14_FirstProviderRateCachedOnceIfCommitted ==
    [][ProvidersInOrder(
           IF last'.env.store_ok
           THEN /\ cache' = WithEntry(cache, now, last'.from, last'.to, last'.ret)
                /\ \A h \in {0, cache_duration_hours} :
                      ServedFromCache(cache', now, h, last'.from, last'.to, last'.ret)
           ELSE /\ cache' = cache
                /\ \A h \in {0, cache_duration_hours} :
                      ~ServedFromCache(cache', now, h, last'.from, last'.to, last'.ret))]_vars

C14_Witness ==
    /\ last.op = "get_exchange_rate"
    /\ last.env.api[1] = Raised
    /\ last.env.api[2] = Rat(2, 1)
    /\ last.log = <<Entry("cache", 0, None), Entry("api", 1, None),
                    Entry("api", 2, Rat(2, 1)), Entry("store", 0, Rat(2, 1))>>
    /\ last.ret = Rat(2, 1)
    /\ cache = <<[from_currency |-> last.from, to_currency |-> last.to,
                  rate |-> Rat(2, 1), date |-> now]>>

\* C15: every cache entry was written from a numeric rate that a successful
\* provider call returned for exactly the pair of the entry: a call writes at
\* most the one entry of its own pair holding the number a provider gave it,
\* writes nothing when every provider fails or the fallback tier answers, and
\* never writes a provider value that is no number.
C15_OnlyNumericProviderRatesCached ==
    [][(last.op = "none" /\ last'.op = "get_exchange_rate")
       => /\ cache' # cache =>
                \E k \in 1 .. Len(ProviderAnswers(last'.log)) :
                    LET got == ProviderAnswers(last'.log)[k].got
                    IN  /\ Truthy(got)
                        /\ got # NonNumeric
                        /\ cache' = WithEntry(cache, now, last'.from, last'.to, got)
          /\ HasTier(last'.log, "fallback") => cache' = cache]_vars

\* the rate of the fallback table for a pair of currencies both in it
FallbackTableRate(from, to) == RDiv(fallback_rates[to], fallback_rates[from])

\* C16: when the cache misses and a provider raises or returns no rate, the
\* next provider is tried; when every provider has failed and both currencies
\* are in the fallback table, get_exchange_rate returns the rate of the
\* fallback table, as a value.
C16_ProviderFailureFallsThrough ==
    (last.op = "get_exchange_rate" /\ HasTier(last.log, "api"))
    => LET answers == ProviderAnswers(last.log)
       IN  /\ \A p \in Providers :
                 (p <= Len(answers) /\ ~Truthy(answers[p].got) /\ p < 3)
                 => (Len(answers) > p /\ answers[p + 1].who = p + 1)
           /\ \A p \in 1 .. Len(answers) :
                 last.env.api[p] = Raised => answers[p].got = None
           /\ ((\A p \in 1 .. Len(answers) : ~Truthy(answers[p].got))
               /\ last.from \in DOMAIN fallback_rates /\ last.to \in DOMAIN fallback_rates)
              => /\ Len(answers) = 3
                 /\ last.ret = FallbackTableRate(last.from, last.to)
                 /\ Truthy(last.ret)

C16_Witness ==
    /\ last.op = "get_exchange_rate"
    /\ last.from = "EUR" /\ last.to = "USD"
    /\ last.env.api[1] = Raised /\ last.env.api[2] = Raised /\ last.env.api[3] = Raised
    /\ Len(ProviderAnswers(last.log)) = 3
    /\ last.ret = Rat(20, 17)

\* C17: resolving the rate from a currency to itself returns exactly 1.0
\* without a look at the cache tier and without a provider call, and writes no
\* cache entry.
C17_SameCurrencyIsOneWithoutTiers ==
    [][(last.op = "none" /\ last'.op = "get_exchange_rate" /\ last'.from = last'.to)
       => /\ last'.ret = One
          /\ ~HasTier(last'.log, "cache")
          /\ ~HasTier(last'.log, "api")
          /\ cache' = cache]_vars

\* the cache lookups a call logged: one per get_exchange_rate it made
LookupsIn(log) == Len(SelectSeq(log, LAMBDA e : e.tier = "cache"))

\* C18: within one bulk_convert_to_usd call get_exchange_rate is invoked at
\* most once for each distinct non-USD currency of the batch and never for
\* USD, however many items share the currency, and the one rate resolved is
\* applied to every amount of that currency.
C18_OneResolutionPerCurrency ==
    last.op = "bulk_convert_to_usd" =>
        /\ \A i, j \in 1 .. Len(last.calls) :
              last.calls[i].currency = last.calls[j].currency => i = j
        /\ \A i \in 1 .. Len(last.calls) :
              last.calls[i].currency \in BatchCurrencies(last.batch)
        /\ LookupsIn(last.log) = Len(last.calls)
        /\ LookupsIn(last.log) <= Cardinality(BatchCurrencies(last.batch))
        /\ \A cur \in BatchCurrencies(last.batch) :
              \E k \in 1 .. Len(last.calls) :
                  /\ last.calls[k].currency = cur
                  /\ \A i \in 1 .. Len(last.batch) :
                        last.batch[i][2] = cur =>
                            last.ret[i] = IF Truthy(last.calls[k].rate)
                                          THEN RDiv(last.batch[i][1], last.calls[k].rate)
                                          ELSE None

\* EUR, CHF, EUR with different amounts: two resolutions for three items
C18_Witness ==
    /\ last.op = "bulk_convert_to_usd"
    /\ Len(last.batch) = 3
    /\ last.batch[1][2] = "EUR" /\ last.batch[2][2] = "CHF" /\ last.batch[3][2] = "EUR"
    /\ last.batch[1][1] # last.batch[3][1]
    /\ Len(last.calls) = 2
    /\ LookupsIn(last.log) = 2
    /\ Truthy(last.calls[1].rate)
    /\ last.ret[1] = RDiv(last.batch[1][1], last.calls[1].rate)
    /\ last.ret[3] = RDiv(last.batch[3][1], last.calls[1].rate)

\* C19: a trend analysis asked for a combination whose variant id or
\* marketplace id names no row of the store yields an outcome other than the
\* one that fewer than 2 observations yield (None).
C19_UnknownIdIsNotInsufficientData ==
    (/\ last.op = "_analyze_single_combination"
     /\ (last.phone_model_id \notin PhoneModelIds \/ last.platform_id \notin PlatformIds))
    => last.ret # NoAnalysis

\* C20: for every analysis produced, current_price is the USD price of the
\* chronologically latest qualifying observation, previous_price that of the
\* observation immediately before it, price_change_amount is current_price
\* minus previous_price, whatever the prices and for a previous price of 0 as
\* well, and price_change_percent is price_change_amount / previous_price * 100.
C20_ChangeIsLatestMinusPrevious ==
    (last.op = "_analyze_single_combination" /\ last.ret.kind = "PriceAnalysis")
    => LET w == InWindow(last.phone_model_id, last.platform_id, last.condition,
                         last.days_back)
           a == last.ret
       IN  /\ \E i \in w : \E j \in w \ {i} :
                 /\ \A k \in w : records[k].scrape_timestamp <= records[i].scrape_timestamp
                 /\ \A k \in w \ {i} :
                       records[k].scrape_timestamp <= records[j].scrape_timestamp
                 /\ a.current_price = records[i].price_usd
                 /\ a.previous_price = records[j].price_usd
           /\ a.price_change_amount = RSub(a.current_price, a.previous_price)
           /\ a.previous_price # Zero =>
                 a.price_change_percent
                     = RMul(RDiv(a.price_change_amount, a.previous_price), Int2Rat(100))

\* sum of i * y[i + 1] and of i * i for i in 0 .. k - 1
RECURSIVE IndexedSum(_, _)
IndexedSum(y, k) ==
    IF k = 0 THEN Zero ELSE RAdd(IndexedSum(y, k - 1), RMul(Int2Rat(k - 1), y[k]))

RECURSIVE PlainSum(_, _)
PlainSum(y, k) == IF k = 0 THEN Zero ELSE RAdd(PlainSum(y, k - 1), y[k])

RECURSIVE IndexSum(_)
IndexSum(k) == IF k = 0 THEN 0 ELSE IndexSum(k - 1) + (k - 1)

RECURSIVE IndexSquareSum(_)
IndexSquareSum(k) == IF k = 0 THEN 0 ELSE IndexSquareSum(k - 1) + (k - 1) * (k - 1)

\* the least-squares slope of y against 0 .. n - 1, as a percentage of the mean
PercentSlope(y) ==
    LET n == Len(y)
        s == RDiv(RSub(RMul(Int2Rat(n), IndexedSum(y, n)),
                       RMul(Int2Rat(IndexSum(n)), PlainSum(y, n))),
                  Int2Rat(n * IndexSquareSum(n) - IndexSum(n) * IndexSum(n)))
        mean == RDiv(PlainSum(y, n), Int2Rat(n))
    IN  RMul(RDiv(s, mean), Int2Rat(100))

ClaimedDirection(y) ==
    IF RLess(Rat(1, 2), PercentSlope(y)) THEN "up"
    ELSE IF RLess(PercentSlope(y), Rat(-1, 2)) THEN "down"
    ELSE "stable"

\* C21: for a series of 3 or more prices, with p the least-squares slope
\* against the index 0 .. n-1 divided by the mean price, times 100, the
\* direction is 'up' iff p > 0.5, 'down' iff p < -0.5 and 'stable' otherwise,
\* p = 0.5 and p = -0.5 included; for stored observations it is that of their
\* prices in chronological order, whatever their timestamps are.
C21_DirectionFromIndexSlope ==
    /\ (last.op = "_determine_trend_direction" /\ Len(last.y) >= 3)
       => last.ret = ClaimedDirection(last.y)
    /\ (/\ last.op = "_analyze_single_combination"
        /\ last.ret.kind = "PriceAnalysis"
        /\ Cardinality(InWindow(last.phone_model_id, last.platform_id, last.condition,
                                last.days_back)) >= 3)
       => \E ord \in ChronoOrders(records) :
              last.ret.trend_direction
                  = ClaimedDirection(PricesOf(Frame(records, now, last.phone_model_id,
                                                    last.platform_id, last.condition,
                                                    last.days_back, ord)))

\* 199, 200, 201 stored 1 day and then 4 days apart: p is exactly 0.5
C21_Witness ==
    /\ last.op = "_analyze_single_combination"
    /\ last.ret.kind = "PriceAnalysis"
    /\ Len(records) = 3
    /\ records[1].price_usd = Rat(199, 1) /\ records[1].scrape_timestamp = 0
    /\ records[2].price_usd = Rat(200, 1) /\ records[2].scrape_timestamp = Days(1)
    /\ records[3].price_usd = Rat(201, 1) /\ records[3].scrape_timestamp = Days(5)
    /\ last.days_back = 30
    /\ PercentSlope(<<Rat(199, 1), Rat(200, 1), Rat(201, 1)>>) = Rat(1, 2)
    /\ last.ret.trend_direction = "stable"

\* the USD prices of the qualifying observations of an analysis, in row order
WindowPrices(m, pf, cond, days_back) ==
    LET rows == SelectSeq([i \in 1 .. Len(records) |-> i],
                          LAMBDA i : i \in InWindow(m, pf, cond, days_back))
    IN  [k \in 1 .. Len(rows) |-> records[rows[k]].price_usd]

\* the root of the mean squared deviation: divisor n
PopulationStd(xs) == Sqrt(RDiv(SumSqDev(xs), Int2Rat(Len(xs))))

\* C22: the volatility of an analysis is the population standard deviation
\* (divisor n, not n - 1) of the USD prices of all qualifying observations of
\* the lookback window.
C22_VolatilityIsPopulationStd ==
    (last.op = "_analyze_single_combination" /\ last.ret.kind = "PriceAnalysis")
    => last.ret.volatility
           = PopulationStd(WindowPrices(last.phone_model_id, last.platform_id,
                                        last.condition, last.days_back))

\* the rows that are the latest observation of their marketplace within a
\* (variant, condition) group
LatestOfGroup(m, cond) ==
    {i \in 1 .. Len(records) :
        /\ records[i].phone_model_id = m
        /\ records[i].condition = cond
        /\ \A j \in 1 .. Len(records) :
              (/\ records[j].phone_model_id = m
               /\ records[j].condition = cond
               /\ records[j].platform_id = records[i].platform_id)
              => records[j].scrape_timestamp <= records[i].scrape_timestamp}

LowestIn(rows) == CHOOSE i \in rows : \A j \in rows : RLeq(records[i].price_usd, records[j].price_usd)

HighestIn(rows) == CHOOSE i \in rows : \A j \in rows : RLeq(records[j].price_usd, records[i].price_usd)

\* (max - min) / min * 100 over the prices of the rows
SpreadPercent(rows) ==
    RMul(RDiv(RSub(records[HighestIn(rows)].price_usd, records[LowestIn(rows)].price_usd),
              records[LowestIn(rows)].price_usd),
         Int2Rat(100))

\* the groups all of whose latest USD prices are there
PricedGroups ==
    {g \in PhoneModelIds \X {"Good", "Fair"} :
        /\ LatestOfGroup(g[1], g[2]) # {}
        /\ \A i \in LatestOfGroup(g[1], g[2]) : records[i].price_usd # None}

\* C23: find_arbitrage_opportunities emits at most one insight for a
\* (variant, condition) group; each insight belongs to a group none of whose
\* latest USD prices is null and its value is (max - min) / min * 100 over
\* the latest USD prices of the marketplaces of the group; the list is in
\* descending order of that value.
C23_ArbitrageValuePerGroupDescending ==
    last.op = "find_arbitrage_opportunities" =>
        /\ \E f \in [1 .. Len(last.ret) -> PricedGroups] :
              /\ \A a, b \in 1 .. Len(last.ret) : f[a] = f[b] => a = b
              /\ \A k \in 1 .. Len(last.ret) :
                    /\ last.ret[k].phone_model = f[k][1]
                    /\ last.ret[k].value = SpreadPercent(LatestOfGroup(f[k][1], f[k][2]))
        /\ \A a, b \in 1 .. Len(last.ret) :
              a < b => RLeq(last.ret[b].value, last.ret[a].value)

\* 500 and 600 in one group, 500 and 1000 in the other, threshold 10: the
\* insight of value 20 comes after the one of value 100
C23_Witness ==
    /\ last.op = "find_arbitrage_opportunities"
    /\ last.min_profit_percent = Rat(10, 1)
    /\ Len(records) = 4
    /\ {<<records[i].condition, records[i].price_usd>> : i \in 1 .. 4}
           = {<<"Good", Rat(500, 1)>>, <<"Good", Rat(600, 1)>>,
              <<"Fair", Rat(500, 1)>>, <<"Fair", Rat(1000, 1)>>}
    /\ records[1].condition = "Good" /\ records[2].condition = "Good"
    /\ Len(last.ret) = 2
    /\ last.ret[1].value = Rat(100, 1)
    /\ last.ret[2].value = Rat(20, 1)

\* the snapshots of period 'weekly' dated within the last 7 days whose
\* absolute change percent is at least the threshold
SignificantSnapshots(min_change_percent) ==
    {i \in 1 .. Len(trends) :
        /\ trends[i].trend_period = "weekly"
        /\ now - trends[i].trend_date <= 7 * 24
        /\ trends[i].price_change_percent # None
        /\ RLeq(min_change_percent, RAbs(trends[i].price_change_percent))}

\* C24: every insight of find_significant_price_changes comes from a snapshot
\* of period 'weekly', dated within the last 7 days, whose absolute change
\* percent is at least min_change_percent; it is a 'price_drop' exactly when
\* the change is negative and a 'price_increase' exactly when it is positive;
\* its value is the absolute change percent; the list is in descending order
\* of it.
C24_SignificantChangesClassified ==
    last.op = "find_significant_price_changes" =>
        /\ \E f \in [1 .. Len(last.ret) -> SignificantSnapshots(last.min_change_percent)] :
              /\ \A a, b \in 1 .. Len(last.ret) : f[a] = f[b] => a = b
              /\ \A k \in 1 .. Len(last.ret) :
                    LET change == trends[f[k]].price_change_percent
                    IN  /\ last.ret[k].insight_type = "price_drop" <=> RLess(change, Zero)
                        /\ last.ret[k].insight_type = "price_increase" <=> RLess(Zero, change)
                        /\ last.ret[k].value = RAbs(change)
        /\ \A a, b \in 1 .. Len(last.ret) :
              a < b => RLeq(last.ret[b].value, last.ret[a].value)

\* the observations on offer now: available, priced in USD, at most 3 days old
OnOffer(i) ==
    /\ records[i].availability
    /\ records[i].price_usd # None
    /\ now - records[i].scrape_timestamp <= 3 * 24

SameGroup(i, j) ==
    /\ records[i].phone_model_id = records[j].phone_model_id
    /\ records[i].condition = records[j].condition

\* C25: every best-deal insight refers to an observation that is available
\* and was observed within the last 3 days and whose price is the lowest of
\* such observations of its (variant, condition) group, and no two insights
\* come from the same group.
C25_BestDealIsAvailableRecentLowest ==
    last.op = "find_best_deals" =>
        \E f \in [1 .. Len(last.ret) -> 1 .. Len(records)] :
            /\ \A k \in 1 .. Len(last.ret) :
                  /\ records[f[k]].phone_model_id = last.ret[k].phone_model
                  /\ records[f[k]].platform_id = last.ret[k].platform
                  /\ records[f[k]].price_usd = last.ret[k].value
                  /\ OnOffer(f[k])
                  /\ \A j \in 1 .. Len(records) :
                        (OnOffer(j) /\ SameGroup(j, f[k]))
                        => RLeq(records[f[k]].price_usd, records[j].price_usd)
            /\ \A a, b \in 1 .. Len(last.ret) : SameGroup(f[a], f[b]) => a = b

\* the cache entries from a currency to USD, of any age
EntriesToUsd(c, currency) ==
    {i \in 1 .. Len(c) : c[i].from_currency = currency /\ c[i].to_currency = "USD"}

LastWritten(c, t, from, to) ==
    CHOOSE i \in FreshRows(c, t, from, to) : \A j \in FreshRows(c, t, from, to) : j <= i

\* C27: when two resolutions of one pair both miss the cache and both write
\* the rate of their provider, a later lookup that is answered by the cache
\* returns the rate of the row written last.
C27_LastWriteWins ==
    (last.op = "get_exchange_rate" /\ last.tier = "cache")
        => last.ret = cache[LastWritten(cache, now, last.from, last.to)].rate

\* convert_to_usd of one item of a batch, from the given state
ItemByItem(c, f, key, t, item, envs) ==
    convert_to_usd(c, f, key, t, item[1], item[2],
                   IF item[2] = "USD" THEN QuietEnv ELSE envs[item[2]]).ret

\* C28: with providers that give each pair one answer, the i-th result of
\* bulk_convert_to_usd is what convert_to_usd gives for the i-th amount and
\* currency from the state the bulk call started in: None where no rate
\* resolves, the amount itself for USD.  The answers of the providers are
\* those under which the bulk call is the one that was made.
C28_BulkAgreesWithItemByItem ==
    [][(last.op = "none" /\ last'.op = "bulk_convert_to_usd")
       => /\ Len(last'.ret) = Len(last'.batch)
          /\ \A envs \in [BatchCurrencies(last'.batch) -> BulkEnvs] :
                \A r \in {bulk_convert_to_usd(cache, fallback_rates, api_key, now,
                                              last'.batch, envs)} :
                    (r.ret = last'.ret /\ r.log = last'.log /\ r.cache = cache')
                    => \A i \in 1 .. Len(last'.batch) :
                          last'.ret[i] = ItemByItem(cache, fallback_rates, api_key, now,
                                                    last'.batch[i], envs)]_vars

\* a batch EUR, CHF, USD whose first amount is converted, whose second has
\* no rate and whose third is passed through; the EUR rate is a cached one
C28_Witness ==
    /\ last.op = "bulk_convert_to_usd"
    /\ Len(last.batch) = 3
    /\ last.batch[1][2] = "CHF" /\ last.batch[2][2] = "USD" /\ last.batch[3][2] = "EUR"
    /\ last.batch[1][1] = Rat(100, 1) /\ last.batch[2][1] = Rat(100, 1)
    /\ last.batch[3][1] = Rat(100, 1)
    /\ last.ret[1] = None
    /\ last.ret[2] = Rat(100, 1)
    /\ last.ret[3] = Rat(50, 1)
    /\ last.log[Len(last.log)] = Entry("cache", 0, Rat(2, 1))

\* C29: once update_fallback_rates has copied the latest cached rate r of a
\* currency to USD into the fallback table, a resolution of that currency
\* that is answered by the fallback tier (cache entry stale, providers
\* failing) returns r, so the conversion gives the amount it gave from the
\* cache.
C29_RefreshedFallbackAgreesWithCache ==
    (/\ last.op = "convert_to_usd"
     /\ last.from \in {"EUR", "GBP", "JPY", "INR", "CAD", "AUD"}
     /\ last.log # <<>>
     /\ last.log[Len(last.log)].tier = "fallback"
     /\ EntriesToUsd(cache, last.from) # {}
     /\ fallback_rates[last.from] = LatestRate(cache, last.from, "USD"))
        => /\ last.rate = LatestRate(cache, last.from, "USD")
           /\ last.ret = RDiv(last.amount, LatestRate(cache, last.from, "USD"))

\* C30: a save that follows run_maintenance_tasks and converts a price by
\* the fallback tier (no fresh cache entry, no provider answer) converts it
\* with the fallback value the maintenance task refreshed, not with the
\* built-in one.
C30_SaveUsesRefreshedFallback ==
    [][(last.op = "none" /\ last'.op = "_save_price_data")
       => \A k \in 1 .. Len(last'.saved) :
             (/\ last'.saved[k].currency \in DOMAIN fallback_rates \ {"USD"}
              /\ fallback_rates[last'.saved[k].currency]
                     # InitFallbackRates[last'.saved[k].currency]
              /\ FreshRows(cache', now, last'.saved[k].currency, "USD") = {})
             => last'.saved[k].price_usd
                    = RDiv(last'.saved[k].price,
                           _get_fallback_rate(fallback_rates, last'.saved[k].currency,
                                              "USD"))]_vars

====
